---- MODULE Spec2Model ----
(***************************************************************************)
(* Model of the HL7 spec extractor's core: the sequence profiler           *)
(* (src/src/sequence_profiler.py) and the field statistics aggregator      *)
(* (src/src/aggregator.py).                                                *)
(*                                                                         *)
(* Python strings that the code takes apart (annotated tokens, field       *)
(* values) are sequences of symbols; dicts whose iteration order the code  *)
(* relies on are sequences of [k, v] entries in insertion order.           *)
(***************************************************************************)
EXTENDS Integers, Sequences, FiniteSets, TLC

(***************************************************************************)
(* Bounds of the model.                                                    *)
(***************************************************************************)
MaxMsgs == 3
MaxSegs == 3

SegNames == {<<"MSH">>, <<"PID">>, <<"OBX">>}

(***************************************************************************)
(* Insertion-ordered dict (dict, Counter): a sequence of entries.          *)
(***************************************************************************)
ODHas(od, key) == \E i \in 1..Len(od) : od[i].k = key

ODGet(od, key, default) ==
  IF ODHas(od, key)
  THEN od[CHOOSE i \in 1..Len(od) : od[i].k = key].v
  ELSE default

ODPut(od, key, val) ==
  IF ODHas(od, key)
  THEN [i \in 1..Len(od) |-> IF od[i].k = key THEN [k |-> key, v |-> val] ELSE od[i]]
  ELSE Append(od, [k |-> key, v |-> val])

ODKeys(od) == {od[i].k : i \in 1..Len(od)}

RECURSIVE SumSeq(_)
SumSeq(s) == IF s = <<>> THEN 0 ELSE Head(s) + SumSeq(Tail(s))

ODSum(od) == SumSeq([i \in 1..Len(od) |-> od[i].v])

(***************************************************************************)
(* sequence_profiler.py                                                    *)
(***************************************************************************)
\* clean_segment_name: drop every '[', ']' and '+' of the token
clean_segment_name(segment) ==
  SelectSeq(segment, LAMBDA c : c \notin {"[", "]", "+"})

\* str.endswith('+')
endswith_plus(seg) == Len(seg) > 0 /\ seg[Len(seg)] = "+"

\* f"{seg}+", f"[{seg}]", f"[{seg}+]"
fmt_plus(seg) == seg \o <<"+">>
fmt_opt(seg) == <<"[">> \o seg \o <<"]">>
fmt_opt_plus(seg) == <<"[">> \o seg \o <<"+", "]">>

\* segments_presence: defaultdict(lambda: {"present_in": 0, "repeats": False})
NoPresence == [present_in |-> 0, repeats |-> FALSE]

SPGet(sp, name) == IF name \in DOMAIN sp THEN sp[name] ELSE NoPresence

SPPut(sp, name, val) ==
  [n \in DOMAIN sp \cup {name} |-> IF n = name THEN val ELSE sp[n]]

\* a name kept only if it is nowhere in the order yet
StartsRun_anywhere(order, seg_name) == \A i \in 1..Len(order) : order[i] # seg_name

\* "if not segment_order or segment_order[-1] != seg_name"
StartsRun(order, seg_name) == order = <<>> \/ order[Len(order)] # seg_name

\* presence counted for every occurrence
NotYetSeen_always(uniq, seg_name) == TRUE

\* "if seg_name not in unique_segments_this_message"
NotYetSeen(uniq, seg_name) == seg_name \notin uniq

\* the body of "for segment in msg['segments']", one segment
ScanSegment(st, seg_name) ==
  LET occ == (IF seg_name \in DOMAIN st.occ THEN st.occ[seg_name] ELSE 0) + 1
      sp1 == IF NotYetSeen(st.uniq, seg_name)
             THEN SPPut(st.sp, seg_name,
                        [SPGet(st.sp, seg_name) EXCEPT !.present_in = @ + 1])
             ELSE st.sp
      sp2 == IF occ > 1
             THEN SPPut(sp1, seg_name, [SPGet(sp1, seg_name) EXCEPT !.repeats = TRUE])
             ELSE sp1
      ord == IF StartsRun(st.order, seg_name)
             THEN Append(st.order, seg_name)
             ELSE st.order
  IN [order |-> ord,
      occ |-> [n \in DOMAIN st.occ \cup {seg_name} |->
                 IF n = seg_name THEN occ ELSE st.occ[n]],
      uniq |-> st.uniq \cup {seg_name},
      sp |-> sp2]

RECURSIVE ScanSegments(_, _, _)
ScanSegments(segs, i, st) ==
  IF i > Len(segs) THEN st
  ELSE ScanSegments(segs, i + 1, ScanSegment(st, segs[i]))

\* the loop "for msg in messages": canonical_sequences and segments_presence
RECURSIVE ScanMessages(_, _, _)
ScanMessages(msgs, i, acc) ==
  IF i > Len(msgs) THEN acc
  ELSE LET st == ScanSegments(msgs[i], 1,
                   [order |-> <<>>, occ |-> <<>>, uniq |-> {}, sp |-> acc.sp])
       IN ScanMessages(msgs, i + 1,
            [canon |-> Append(acc.canon, st.order), sp |-> st.sp])

\* "for seq in canonical_sequences: sequence_counts[seq] += 1"
RECURSIVE CountSequences(_, _, _)
CountSequences(canon, i, counts) ==
  IF i > Len(canon) THEN counts
  ELSE CountSequences(canon, i + 1,
         ODPut(counts, canon[i], ODGet(counts, canon[i], 0) + 1))

\* the annotation of one token
AnnotateSeg(seg, sp) == IF SPGet(sp, seg).repeats THEN fmt_plus(seg) ELSE seg

AnnotateSeq(seq, sp) == [i \in 1..Len(seq) |-> AnnotateSeg(seq[i], sp)]

\* "annotated_sequences[tuple(annotated_seq)] = count"
RECURSIVE AnnotateAll(_, _, _, _)
AnnotateAll(counts, i, sp, out) ==
  IF i > Len(counts) THEN out
  ELSE AnnotateAll(counts, i + 1, sp,
         ODPut(out, AnnotateSeq(counts[i].k, sp), counts[i].v))

CleanAll(pattern) == [i \in 1..Len(pattern) |-> clean_segment_name(pattern[i])]

InSeq(x, s) == \E i \in 1..Len(s) : s[i] = x

\* is_subsequence: the greedy scan of the longer pattern
RECURSIVE SubseqScan(_, _, _, _)
SubseqScan(shorter, longer, k, i) ==
  IF k > Len(longer) THEN i
  ELSE SubseqScan(shorter, longer, k + 1,
         IF i < Len(shorter)
            /\ clean_segment_name(shorter[i + 1]) = clean_segment_name(longer[k])
         THEN i + 1 ELSE i)

\* the length test turned around: a shorter pattern is never a subsequence
is_subsequence_lenflip(shorter, longer) ==
  IF Len(shorter) <= Len(longer) THEN FALSE
  ELSE SubseqScan(shorter, longer, 1, 0) = Len(shorter)

is_subsequence(shorter, longer) ==
  IF Len(shorter) >= Len(longer) THEN FALSE
  ELSE SubseqScan(shorter, longer, 1, 0) = Len(shorter)

\* the optional marking shared by the two merges: bracket when presence < total
MarkOptional(seg, sp, total_messages) ==
  LET clean_seg == clean_segment_name(seg)
  IN IF SPGet(sp, clean_seg).present_in < total_messages
     THEN IF endswith_plus(seg) THEN fmt_opt_plus(clean_seg) ELSE fmt_opt(clean_seg)
     ELSE seg

merge_with_optional_segments(longer_pattern, shorter_pattern, sp, total_messages) ==
  LET shorter_segments == CleanAll(shorter_pattern)
  IN [i \in 1..Len(longer_pattern) |->
        IF InSeq(clean_segment_name(longer_pattern[i]), shorter_segments)
        THEN longer_pattern[i]
        ELSE MarkOptional(longer_pattern[i], sp, total_messages)]

\* the insertion at the front
find_insertion_point_front(existing_segments) == 1

\* find_insertion_point: always the end
find_insertion_point(existing_segments) == Len(existing_segments) + 1

\* first and second pass of find_common_structure: segments not yet seen are appended
RECURSIVE CollectSegments(_, _, _)
CollectSegments(pattern, i, all_segments) ==
  IF i > Len(pattern) THEN all_segments
  ELSE CollectSegments(pattern, i + 1,
         IF InSeq(clean_segment_name(pattern[i]), CleanAll(all_segments))
         THEN all_segments
         ELSE LET pos == find_insertion_point(all_segments)
              IN SubSeq(all_segments, 1, pos - 1) \o <<pattern[i]>>
                   \o SubSeq(all_segments, pos, Len(all_segments)))

find_common_structure(pattern1, pattern2, sp, total_messages) ==
  LET p1_segments == CleanAll(pattern1)
      p2_segments == CleanAll(pattern2)
      all_segments == CollectSegments(pattern2, 1, CollectSegments(pattern1, 1, <<>>))
  IN [i \in 1..Len(all_segments) |->
        LET clean_seg == clean_segment_name(all_segments[i])
        IN IF InSeq(clean_seg, p1_segments) /\ InSeq(clean_seg, p2_segments)
           THEN all_segments[i]
           ELSE MarkOptional(all_segments[i], sp, total_messages)]

\* try_merge_patterns returns a list or None
NoMerge == [some |-> FALSE, val |-> <<>>]

Some(pattern) == [some |-> TRUE, val |-> pattern]

try_merge_patterns(pattern1, pattern2, sp, total_messages) ==
  IF pattern1 = pattern2 THEN NoMerge
  ELSE IF is_subsequence(pattern1, pattern2)
  THEN Some(merge_with_optional_segments(pattern2, pattern1, sp, total_messages))
  ELSE IF is_subsequence(pattern2, pattern1)
  THEN Some(merge_with_optional_segments(pattern1, pattern2, sp, total_messages))
  ELSE LET merged == find_common_structure(pattern1, pattern2, sp, total_messages)
       IN IF merged # pattern1 /\ merged # pattern2 THEN Some(merged) ELSE NoMerge

\* "if merge_result:" (None and the empty list are falsy)
Truthy(merge_result) == merge_result.some /\ merge_result.val # <<>>

\* a merge that forgets the count of the tuple it folds in
AddCount_dropped(merged_count, count2) == merged_count

\* "merged_count += count2"
AddCount(merged_count, count2) == merged_count + count2

\* the inner loop of merge_similar_patterns over pattern_list[i+1:]
RECURSIVE MergeInner(_, _, _, _, _, _)
MergeInner(pattern_list, i, j, st, sp, total_messages) ==
  IF j > Len(pattern_list) THEN st
  ELSE IF pattern_list[j].k \in st.processed
  THEN MergeInner(pattern_list, i, j + 1, st, sp, total_messages)
  ELSE LET merge_result == try_merge_patterns(pattern_list[i].k, pattern_list[j].k,
                                              sp, total_messages)
       IN MergeInner(pattern_list, i, j + 1,
            IF Truthy(merge_result)
            THEN [merged_pattern |-> merge_result.val,
                  merged_count |-> AddCount(st.merged_count, pattern_list[j].v),
                  processed |-> st.processed \cup {pattern_list[j].k}]
            ELSE st,
            sp, total_messages)

\* the outer loop of merge_similar_patterns
RECURSIVE MergeOuter(_, _, _, _, _, _)
MergeOuter(pattern_list, i, merged, processed, sp, total_messages) ==
  IF i > Len(pattern_list) THEN merged
  ELSE IF pattern_list[i].k \in processed
  THEN MergeOuter(pattern_list, i + 1, merged, processed, sp, total_messages)
  ELSE LET st == MergeInner(pattern_list, i, i + 1,
                   [merged_pattern |-> pattern_list[i].k,
                    merged_count |-> pattern_list[i].v,
                    processed |-> processed \cup {pattern_list[i].k}],
                   sp, total_messages)
       IN MergeOuter(pattern_list, i + 1,
            ODPut(merged, st.merged_pattern, st.merged_count),
            st.processed, sp, total_messages)

merge_similar_patterns(patterns, sp, total_messages) ==
  MergeOuter(patterns, 1, <<>>, {}, sp, total_messages)

\* the presence test off by one
is_optional_inclusive(sp, base_seg, total_messages) ==
  SPGet(sp, base_seg).present_in <= total_messages

\* "is_optional = segments_presence[base_seg]['present_in'] < total_messages"
is_optional(sp, base_seg, total_messages) ==
  SPGet(sp, base_seg).present_in < total_messages

\* the final optional marking of one token (lines 94-104)
FinalToken(seg, sp, total_messages) ==
  LET base_seg == clean_segment_name(seg)
      is_repeat == endswith_plus(seg)
      is_optional_ == is_optional(sp, base_seg, total_messages)
  IN IF is_optional_ /\ is_repeat THEN fmt_opt_plus(base_seg)
     ELSE IF is_optional_ THEN fmt_opt(base_seg)
     ELSE seg

FinalPattern(pattern, sp, total_messages) ==
  [i \in 1..Len(pattern) |-> FinalToken(pattern[i], sp, total_messages)]

\* round(count / total_messages * 100, 1), in tenths of a percent (half to even)
Percent10(count, total_messages) ==
  LET num == count * 1000
      q == num \div total_messages
      r2 == 2 * (num % total_messages)
  IN IF r2 > total_messages \/ (r2 = total_messages /\ q % 2 = 1) THEN q + 1 ELSE q

FinalEntry(entry, sp, total_messages) ==
  [sequence |-> FinalPattern(entry.k, sp, total_messages),
   count |-> entry.v,
   percent |-> Percent10(entry.v, total_messages)]

\* list.sort(key=count, reverse=True): stable, by count descending
RECURSIVE InsertByCount(_, _)
InsertByCount(sorted, e) ==
  IF sorted = <<>> THEN <<e>>
  ELSE IF Head(sorted).count >= e.count
  THEN <<Head(sorted)>> \o InsertByCount(Tail(sorted), e)
  ELSE <<e>> \o sorted

RECURSIVE SortByCount(_, _, _)
SortByCount(list, i, sorted) ==
  IF i > Len(list) THEN sorted
  ELSE SortByCount(list, i + 1, InsertByCount(sorted, list[i]))

profile_sequences_for_type(msgs) ==
  LET total_messages == Len(msgs)
      scan == ScanMessages(msgs, 1, [canon |-> <<>>, sp |-> <<>>])
      sequence_counts == CountSequences(scan.canon, 1, <<>>)
      annotated_sequences == AnnotateAll(sequence_counts, 1, scan.sp, <<>>)
      merged_patterns == merge_similar_patterns(annotated_sequences, scan.sp, total_messages)
      final_sequences == [i \in 1..Len(merged_patterns) |->
                            FinalEntry(merged_patterns[i], scan.sp, total_messages)]
  IN [common_sequences |-> SortByCount(final_sequences, 1, <<>>),
      segments |-> scan.sp,
      total_messages |-> total_messages,
      merged_patterns |-> merged_patterns,
      canonical_sequences |-> scan.canon]

(***************************************************************************)
(* aggregator.py: values.  A Python str is Str(<<symbols>>), a Python list *)
(* is List(<<items>>).                                                     *)
(***************************************************************************)
MAX_UNIQUE == 100

\* the key "__TOO_MANY__"
TOO_MANY == <<"__TOO_MANY__">>

Str(s) == [str |-> s]
List(l) == [list |-> l]
IsList(v) == "list" \in DOMAIN v

\* the characters str.strip() removes
Whitespace == {" "}

RECURSIVE LStrip(_, _)
LStrip(s, chars) ==
  IF s # <<>> /\ Head(s) \in chars THEN LStrip(Tail(s), chars) ELSE s

RECURSIVE RStrip(_, _)
RStrip(s, chars) ==
  IF s # <<>> /\ s[Len(s)] \in chars THEN RStrip(SubSeq(s, 1, Len(s) - 1), chars) ELSE s

\* str.strip(chars)
Strip(s, chars) == RStrip(LStrip(s, chars), chars)

\* "^".join(parts)
RECURSIVE Join(_)
Join(parts) ==
  IF parts = <<>> THEN <<>>
  ELSE IF Len(parts) = 1 THEN parts[1]
  ELSE parts[1] \o <<"^">> \o Join(Tail(parts))

RECURSIVE flatten_list(_)
flatten_list(lst) ==
  IF lst = <<>> THEN <<>>
  ELSE (IF IsList(Head(lst)) THEN flatten_list(Head(lst).list)
        ELSE <<Strip(Head(lst).str, Whitespace)>>)
       \o flatten_list(Tail(lst))

normalize_value(value) ==
  IF IsList(value) THEN Strip(Join(flatten_list(value.list)), {"^"})
  ELSE Strip(value.str, Whitespace)

RECURSIVE collapse_complex_components(_)
collapse_complex_components(value) ==
  IF IsList(value)
  THEN Strip(Join([i \in 1..Len(value.list) |->
                     IF IsList(value.list[i])
                     THEN collapse_complex_components(value.list[i])
                     ELSE Strip(value.list[i].str, Whitespace)]), {"^"})
  ELSE Strip(value.str, Whitespace)

(***************************************************************************)
(* FieldStats                                                              *)
(***************************************************************************)
\* FieldStats.__init__
NewFieldStats == [values |-> <<>>, presence_count |-> 0, frozen |-> FALSE]

\* the cap test off by one
BelowCap_offbyone(values) == Len(values) <= MAX_UNIQUE

\* "len(self.values) < MAX_UNIQUE"
BelowCap(values) == Len(values) < MAX_UNIQUE

\* the count assigned, not incremented
add_value_assign(stats, value) ==
  IF stats.frozen THEN stats
  ELSE IF BelowCap(stats.values)
  THEN [stats EXCEPT !.values = ODPut(@, value, 1)]
  ELSE [stats EXCEPT !.values = <<[k |-> TOO_MANY, v |-> 1]>>, !.frozen = TRUE]

\* FieldStats.add_value
add_value(stats, value) ==
  IF stats.frozen THEN stats
  ELSE IF BelowCap(stats.values)
  THEN [stats EXCEPT !.values = ODPut(@, value, ODGet(@, value, 0) + 1)]
  ELSE [stats EXCEPT !.values = <<[k |-> TOO_MANY, v |-> 1]>>, !.frozen = TRUE]

\* FieldStats.mark_present
mark_present(stats) == [stats EXCEPT !.presence_count = @ + 1]

\* presence marked for every value, not once per message
FirstInMessage_always(field_key, seen) == TRUE

\* "if field_key not in seen_fields"
FirstInMessage(field_key, seen) == field_key \notin seen

\* the early return left out
Skipped_never(stats) == FALSE

\* "if stats._frozen: return"
Skipped(stats) == stats.frozen

\* process_field_value on st = [stats, seen]; the result is the new [stats, seen]
process_field_value(st, value, field_path, segment_name) ==
  IF Skipped(st.stats) THEN st
  ELSE LET normalized == normalize_value(value)
           field_key == <<segment_name, field_path>>
       IN IF normalized = <<>> THEN st
          ELSE [stats |-> add_value(IF FirstInMessage(field_key, st.seen)
                                    THEN mark_present(st.stats)
                                    ELSE st.stats,
                                    normalized),
                seen |-> st.seen \cup {field_key}]

(***************************************************************************)
(* The vocabulary: schemas/hl7_fields.json is not part of the sources, a   *)
(* small table of the same shape stands for it.                            *)
(***************************************************************************)
field_vocab ==
  [k \in {<<"PID", 1>>, <<"PID", 2>>, <<"PV1", 1>>, <<"PV1", 2>>, <<"OBX", 1>>,
          <<"OBX", 14>>, <<"OBR", 1>>} |->
     CASE k = <<"PID", 1>> -> "CE"
       [] k = <<"PID", 2>> -> "ST"
       [] k = <<"PV1", 1>> -> "XCN"
       [] k = <<"PV1", 2>> -> "ST"
       [] k = <<"OBX", 1>> -> "ST"
       [] k = <<"OBX", 14>> -> "TS"
       [] k = <<"OBR", 1>> -> "SI"]

\* field_datatype(segment, field_path): the type of the base field, "" if unknown
field_datatype(segment, base_field) ==
  IF <<segment, base_field>> \in DOMAIN field_vocab
  THEN field_vocab[<<segment, base_field>>] ELSE ""

\* is_complex_type: the datatypes with components
is_complex_type(hl7_type) ==
  hl7_type \in {"CX", "XCN", "PPN", "XAD", "XTN", "XPN", "EI", "CE", "CWE", "HD",
                "PL", "MSG", "PT", "VID", "TS", "TQ", "MOC", "CP", "CQ", "FC", "DR",
                "LA1", "LA2"}

\* "if component or str(component).strip()": a list is never skipped (the str of
\* an empty list is "[]"), a string is skipped when it is empty
NotSkipped(component) == IsList(component) \/ component.str # <<>>

(***************************************************************************)
(* process_field_unified: the calls of process_field_value it makes, in    *)
(* order, as [path, value]                                                 *)
(***************************************************************************)
RECURSIVE Flatten(_)
Flatten(seqs) == IF seqs = <<>> THEN <<>> ELSE Head(seqs) \o Flatten(Tail(seqs))

\* process_complex_field_collapsed
CollapsedCalls(value, field_path) ==
  IF IsList(value) /\ \A i \in 1..Len(value.list) : IsList(value.list[i])
  THEN SelectSeq([i \in 1..Len(value.list) |->
                    [path |-> field_path,
                     value |-> Str(collapse_complex_components(value.list[i]))]],
                 LAMBDA c : c.value.str # <<>>)
  ELSE LET collapsed == collapse_complex_components(value)
       IN IF collapsed # <<>> THEN <<[path |-> field_path, value |-> Str(collapsed)]>>
          ELSE <<>>

\* the component index taken from 0
component_path_zero(base_path, i) == <<base_path, i - 1>>

\* f"{base_path}.{i + 1}" for the i-th component (i from 1 here, from 0 in enumerate)
component_path(base_path, i) == <<base_path, i>>

\* the body of "for repetition in repetitions"
RepetitionCalls(repetition, base_path, should_break_components) ==
  IF should_break_components /\ IsList(repetition)
  THEN SelectSeq([i \in 1..Len(repetition.list) |->
                    [path |-> component_path(base_path, i), value |-> repetition.list[i]]],
                 LAMBDA c : NotSkipped(c.value))
  ELSE IF should_break_components
  THEN IF NotSkipped(repetition)
       THEN <<[path |-> <<base_path, 1>>, value |-> repetition]>>
       ELSE <<>>
  ELSE <<[path |-> <<base_path>>, value |-> repetition]>>

\* "hl7_type in ['XCN', 'PPN'] and not is_repeating"
OpaqueCollapse(hl7_type, is_repeating) == hl7_type \in {"XCN", "PPN"} /\ ~is_repeating

UnifiedCalls(field_value, base_path, hl7_type, is_repeating) ==
  IF OpaqueCollapse(hl7_type, is_repeating)
  THEN CollapsedCalls(field_value, <<base_path>>)
  ELSE LET repetitions == IF is_repeating /\ IsList(field_value)
                          THEN field_value.list ELSE <<field_value>>
       IN Flatten([i \in 1..Len(repetitions) |->
                     RepetitionCalls(repetitions[i], base_path, is_complex_type(hl7_type))])

\* field_stats[msg_type][seg_name][path]: a defaultdict, the lookup creates the entry
FSGet(fs, key) == IF key \in DOMAIN fs THEN fs[key] ELSE NewFieldStats

FSPut(fs, key, stats) ==
  [x \in DOMAIN fs \cup {key} |-> IF x = key THEN stats ELSE fs[x]]

RECURSIVE ApplyCalls(_, _, _, _, _)
ApplyCalls(st, calls, i, msg_type_, seg_name) ==
  IF i > Len(calls) THEN st
  ELSE LET key == <<msg_type_, seg_name, calls[i].path>>
           r == process_field_value([stats |-> FSGet(st.fs, key), seen |-> st.seen],
                                    calls[i].value, calls[i].path, seg_name)
       IN ApplyCalls([fs |-> FSPut(st.fs, key, r.stats), seen |-> r.seen],
                     calls, i + 1, msg_type_, seg_name)

\* process_field_unified on st = [fs, seen]
process_field_unified(st, field_value, base_path, msg_type_, seg_name, is_repeating) ==
  LET hl7_type == field_datatype(seg_name, base_path)
      base_key == <<msg_type_, seg_name, <<base_path>>>>
      st1 == IF OpaqueCollapse(hl7_type, is_repeating)
             THEN [st EXCEPT !.fs = FSPut(@, base_key, FSGet(@, base_key))]
             ELSE st
  IN ApplyCalls(st1, UnifiedCalls(field_value, base_path, hl7_type, is_repeating),
                1, msg_type_, seg_name)

\* "for field_index, field_value in enumerate(fields, start=1)"
RECURSIVE ProcessFields(_, _, _, _)
ProcessFields(st, segment, field_index, msg_type_) ==
  IF field_index > Len(segment.fields) THEN st
  ELSE ProcessFields(
         process_field_unified(st, segment.fields[field_index], field_index, msg_type_,
                               segment.name, field_index \in segment.repeating_fields),
         segment, field_index + 1, msg_type_)

(***************************************************************************)
(* The output format and consolidate_single_component_fields.  The value   *)
(* tree and the presence table are functions of <<msg_type, seg, path>>.   *)
(***************************************************************************)
\* the sentinel taken for content
has_content_sentinel(stats) ==
  \E i \in 1..Len(stats.values) : Strip(stats.values[i].k, Whitespace) # <<>>

\* "any(value.strip() for value in stats.values.keys() if value != '__TOO_MANY__')"
has_content(stats) ==
  \E i \in 1..Len(stats.values) :
    stats.values[i].k # TOO_MANY /\ Strip(stats.values[i].k, Whitespace) # <<>>

\* "if stats.values and stats.presence_count > 0: ... if has_content:"
Kept(stats) == stats.values # <<>> /\ stats.presence_count > 0 /\ has_content(stats)

OutputSpec(fs) == [key \in {x \in DOMAIN fs : Kept(fs[x])} |-> fs[key].values]

OutputPresence(fs) == [key \in {x \in DOMAIN fs : Kept(fs[x])} |-> fs[key].presence_count]

\* the paths of one base field in fields = spec[msg_type][seg_name]
field_components(spec, msg_type_, seg_name, base_field) ==
  {key[3] : key \in {x \in DOMAIN spec :
                       x[1] = msg_type_ /\ x[2] = seg_name /\ x[3][1] = base_field}}

\* the datatypes the consolidation skips
ConsolidationExcluded == {"XCN", "PPN", "CX", "XAD", "XTN", "XPN"}

\* field_path.endswith(".1")
EndsWithDot1(field_path) == Len(field_path) = 2 /\ field_path[2] = 1

\* the tests of lines 174-181 for the entry at key
ShouldConsolidate(spec, key) ==
  /\ key \in DOMAIN spec
  /\ field_datatype(key[2], key[3][1]) \notin ConsolidationExcluded
  /\ field_components(spec, key[1], key[2], key[3][1]) = {key[3]}
  /\ EndsWithDot1(key[3])
  /\ spec[key] # <<>>

BaseKey(key) == <<key[1], key[2], <<key[3][1]>>>>

\* "table[base_field] = table.pop(component_path)" for every consolidated entry
Renamed(table, spec) ==
  LET moved == {key \in DOMAIN table : ShouldConsolidate(spec, key)}
  IN [key \in (DOMAIN table \ moved) \cup {BaseKey(x) : x \in moved} |->
        IF \E x \in moved : BaseKey(x) = key
        THEN table[CHOOSE x \in moved : BaseKey(x) = key]
        ELSE table[key]]

RenamedSpec(spec) == Renamed(spec, spec)

\* the rename of the presence table forgotten
RenamedPresence_forgotten(presence, spec) == presence

RenamedPresence(presence, spec) == Renamed(presence, spec)

consolidate_single_component_fields(spec, presence) ==
  [spec |-> RenamedSpec(spec), presence |-> RenamedPresence(presence, spec)]

(***************************************************************************)
(* hl7_fields.infer_type.  A string is the sequence of its characters.     *)
(***************************************************************************)
Digits == {"0", "1", "2", "3", "4", "5", "6", "7", "8", "9"}

HexDigits == Digits \cup {"a", "b", "c", "d", "e", "f", "A", "B", "C", "D", "E", "F"}

UpperCase == <<"A", "B", "C", "D", "E", "F", "G", "H", "I", "J", "K", "L", "M",
               "N", "O", "P", "Q", "R", "S", "T", "U", "V", "W", "X", "Y", "Z">>

LowerCase == <<"a", "b", "c", "d", "e", "f", "g", "h", "i", "j", "k", "l", "m",
               "n", "o", "p", "q", "r", "s", "t", "u", "v", "w", "x", "y", "z">>

\* str.lower()
Lower(s) ==
  [i \in 1..Len(s) |->
     IF \E u \in 1..26 : UpperCase[u] = s[i]
     THEN LowerCase[CHOOSE u \in 1..26 : UpperCase[u] = s[i]]
     ELSE s[i]]

AllIn(s, chars) == \A i \in 1..Len(s) : s[i] \in chars

\* re.fullmatch(r"\d{n}", sample)
FullmatchDigits(sample, n) == Len(sample) = n /\ AllIn(sample, Digits)

\* an optional sign removed: "[-+]?"
Unsigned(s) == IF s # <<>> /\ s[1] \in {"-", "+"} THEN Tail(s) ELSE s

\* re.fullmatch(r"[-+]?\d+", sample)
FullmatchInt(sample) == Unsigned(sample) # <<>> /\ AllIn(Unsigned(sample), Digits)

\* re.fullmatch(r"[-+]?\d*\.\d+", sample)
FullmatchFloat(sample) ==
  LET u == Unsigned(sample)
  IN \E d \in 1..Len(u) :
       /\ u[d] = "."
       /\ AllIn(SubSeq(u, 1, d - 1), Digits)
       /\ d < Len(u)
       /\ AllIn(SubSeq(u, d + 1, Len(u)), Digits)

StartsWith(s, prefix) ==
  Len(s) >= Len(prefix) /\ SubSeq(s, 1, Len(prefix)) = prefix

\* s.replace(sub, ''): the non-overlapping occurrences of sub removed, left to right
RECURSIVE RemoveAll(_, _)
RemoveAll(s, sub) ==
  IF s = <<>> THEN <<>>
  ELSE IF StartsWith(s, sub) THEN RemoveAll(SubSeq(s, Len(sub) + 1, Len(s)), sub)
  ELSE <<Head(s)>> \o RemoveAll(Tail(s), sub)

\* the digits of int(_, 16) after sign and prefix: hex digits, single underscores
\* between them
HexBody(s, after_prefix) ==
  /\ s # <<>>
  /\ AllIn(s, HexDigits \cup {"_"})
  /\ s[Len(s)] # "_"
  /\ (s[1] = "_" => after_prefix)
  /\ \A i \in 1..(Len(s) - 1) : ~(s[i] = "_" /\ s[i + 1] = "_")

\* int(hex, 16): [parses, negative, zero]
ParseInt16(hex) ==
  LET trimmed == Strip(hex, Whitespace)
      negative == trimmed # <<>> /\ trimmed[1] = "-"
      unsigned == Unsigned(trimmed)
      prefixed == Len(unsigned) >= 2 /\ unsigned[1] = "0" /\ unsigned[2] \in {"x", "X"}
      body == IF prefixed THEN SubSeq(unsigned, 3, Len(unsigned)) ELSE unsigned
  IN [parses |-> HexBody(body, prefixed),
      negative |-> negative,
      zero |-> AllIn(body, {"0", "_"})]

\* UUID(sample) does not raise: uuid.UUID.__init__ with hex = sample
UUIDParses(sample) ==
  LET hex == RemoveAll(Strip(RemoveAll(RemoveAll(sample, <<"u", "r", "n", ":">>),
                                       <<"u", "u", "i", "d", ":">>),
                             {"{", "}"}),
                       <<"-">>)
      int == ParseInt16(hex)
  IN Len(hex) = 32 /\ int.parses /\ (int.negative => int.zero)

\* the sample taken from the last key, not the first
Sample_last(keys) ==
  LET real == SelectSeq(keys, LAMBDA v : v # TOO_MANY)
  IN IF real = <<>> THEN <<>> ELSE real[Len(real)]

\* "next((v for v in values if v != '__TOO_MANY__'), None)"; None and "" are both
\* falsy and both <<>> here
Sample(keys) ==
  LET real == SelectSeq(keys, LAMBDA v : v # TOO_MANY)
  IN IF real = <<>> THEN <<>> ELSE real[1]

\* the tag of a sample
TypeOfSample(sample) ==
  IF sample = <<>> THEN "unknown"
  ELSE IF FullmatchDigits(sample, 8) THEN "yyyyMMdd"
  ELSE IF FullmatchDigits(sample, 14) THEN "yyyyMMddHHmmss"
  ELSE IF FullmatchDigits(sample, 12) THEN "yyyyMMddHHmm"
  ELSE IF UUIDParses(sample) THEN "uuid"
  ELSE IF FullmatchInt(sample) THEN "int"
  ELSE IF FullmatchFloat(sample) THEN "float"
  ELSE IF Lower(sample) \in {<<"t", "r", "u", "e">>, <<"f", "a", "l", "s", "e">>,
                             <<"y">>, <<"n">>} THEN "boolean"
  ELSE "string"

\* infer_type(values): values is a mapping, iterated in insertion order
infer_type(values_) == TypeOfSample(Sample([i \in 1..Len(values_) |-> values_[i].k]))

(***************************************************************************)
(* spec_builder.py: the entry of one field of the report.  A full path is  *)
(* the string "SEG.N" or "SEG.N.k", the sequence of its characters.        *)
(***************************************************************************)
\* the characters of a segment name
SegmentChars(seg_name) ==
  CASE seg_name = "PID" -> <<"P", "I", "D">>
    [] seg_name = "MRG" -> <<"M", "R", "G">>
    [] seg_name = "IN" -> <<"I", "N">>
    [] seg_name = "IN1" -> <<"I", "N", "1">>
    [] seg_name = "IN2" -> <<"I", "N", "2">>
    [] seg_name = "GT1" -> <<"G", "T", "1">>
    [] seg_name = "NK1" -> <<"N", "K", "1">>
    [] seg_name = "OBX" -> <<"O", "B", "X">>
    [] seg_name = "OBR" -> <<"O", "B", "R">>

\* str(n): the decimal digits of n
RECURSIVE NumChars(_)
NumChars(n) ==
  IF n < 10 THEN <<ToString(n)>> ELSE NumChars(n \div 10) \o <<ToString(n % 10)>>

\* f"{segment}.{field_path}"
FullPath(segment, field_path) ==
  SegmentChars(segment) \o <<".">> \o NumChars(field_path[1])
    \o (IF Len(field_path) = 2 THEN <<".">> \o NumChars(field_path[2]) ELSE <<>>)

\* PHI_FIELDS (lines 9-14)
PHI_FIELDS ==
  {FullPath(e[1], e[2]) : e \in
     {<<"PID", <<2, 1>>>>, <<"PID", <<3, 1>>>>, <<"PID", <<5>>>>, <<"PID", <<6>>>>,
      <<"PID", <<7>>>>, <<"PID", <<9>>>>, <<"PID", <<11, 1>>>>, <<"PID", <<11, 2>>>>,
      <<"PID", <<13, 1>>>>, <<"PID", <<13, 6>>>>, <<"PID", <<13, 7>>>>,
      <<"PID", <<14, 1>>>>, <<"PID", <<14, 6>>>>, <<"PID", <<14, 7>>>>,
      <<"PID", <<18>>>>, <<"PID", <<19>>>>, <<"PID", <<20>>>>, <<"PID", <<21>>>>,
      <<"PID", <<23>>>>, <<"MRG", <<1, 1>>>>, <<"MRG", <<4, 1>>>>, <<"MRG", <<7>>>>,
      <<"IN", <<16>>>>, <<"GT1", <<2>>>>, <<"GT1", <<3>>>>, <<"GT1", <<5>>>>,
      <<"GT1", <<6>>>>, <<"GT1", <<7>>>>, <<"GT1", <<20>>>>, <<"NK1", <<2>>>>,
      <<"NK1", <<4>>>>, <<"NK1", <<5>>>>, <<"NK1", <<6>>>>, <<"IN2", <<2>>>>,
      <<"IN1", <<19>>>>, <<"IN2", <<13>>>>, <<"IN1", <<16>>>>}}

\* "f if f.count('.') > 0 else f + '.'"
PHI_PREFIXES ==
  {IF InSeq(".", f) THEN f ELSE f \o <<".">> : f \in PHI_FIELDS}

\* only the paths of the list itself
is_phi_field_local_exact(segment, field_path) ==
  FullPath(segment, field_path) \in PHI_FIELDS

\* is_phi_field_local
is_phi_field_local(segment, field_path) ==
  LET full_path == FullPath(segment, field_path)
  IN \/ full_path \in PHI_FIELDS
     \/ \E prefix \in PHI_PREFIXES : StartsWith(full_path, prefix)

\* should_collect_unique_values
should_collect_unique_values(seg_name, field_path, values, hl7_type) ==
  IF is_phi_field_local(seg_name, field_path) THEN FALSE
  ELSE IF ODHas(values, TOO_MANY) \/ Len(values) > 100 THEN FALSE
  ELSE IF hl7_type = "TS" THEN FALSE
  ELSE IF hl7_type = "SI" THEN FALSE
  ELSE TRUE

\* sorted(items, key=count, reverse=True): stable, so an item stands after the
\* items of a greater count and after the earlier items of the same count
sorted_by_count(items) ==
  LET rank(i) == Cardinality({j \in 1..Len(items) :
                                \/ items[j].count > items[i].count
                                \/ items[j].count = items[i].count /\ j < i}) + 1
  IN [p \in 1..Len(items) |-> items[CHOOSE i \in 1..Len(items) : rank(i) = p]]

\* "sorted([{value, count, percent} for v in values], key=lambda x: x['count'],
\* reverse=True)"
unique_values(values, total_count) ==
  sorted_by_count([i \in 1..Len(values) |->
                     [value |-> values[i].k,
                      count |-> values[i].v,
                      percent |-> Percent10(values[i].v, total_count)]])

\* min(len(v) for v in values) and max(len(v) for v in values)
KeyLengths(values) == {Len(values[i].k) : i \in 1..Len(values)}

\* the entry of create_individual_spec (lines 66-87) and of create_combined_spec
\* (lines 132-152); the description and the presence, copied from the vocabulary
\* and the presence table, are left out
field_entry(seg_name, field_path, values) ==
  LET total_count == ODSum(values)
      hl7_type == field_datatype(seg_name, field_path[1])
  IN [hl7_type |-> hl7_type,
      count |-> total_count,
      type |-> infer_type(values),
      min_length |-> CHOOSE n \in KeyLengths(values) : \A m \in KeyLengths(values) : n <= m,
      max_length |-> CHOOSE n \in KeyLengths(values) : \A m \in KeyLengths(values) : n >= m,
      unique_values |->
        IF should_collect_unique_values(seg_name, field_path, values, hl7_type)
        THEN [listing |-> unique_values(values, total_count)]
        ELSE [none |-> TRUE]]

(***************************************************************************)
(* State.  The profiler runs on a collection of messages of one category;  *)
(* the aggregator walks the messages segment by segment.                   *)
(***************************************************************************)
VARIABLES
  messages,        \* profiler: the messages of the category (lists of segment names)
  seq_pc,          \* profiler: "collect" or "done"
  profile,         \* profiler: the result of profile_sequences_for_type
  field_stats,     \* aggregator: <<msg_type, seg, path>> -> FieldStats
  seen_fields,     \* aggregator: the per-message set of <<seg, path>>
  msg_type,        \* aggregator: the category of the message being processed
  totals_by_type,  \* aggregator: category -> number of messages
  agg_pc,          \* aggregator: "loop" or "done"
  out,             \* aggregator: [spec, presence] after the consolidation
  steps,           \* the size of the corpus walked so far (messages and segments)
  msg_start,       \* history: presence_count and frozen of every field at message start
  msg_recorded,    \* history: <<seg, path>> with a non-empty value in this message
  corpus_recorded, \* history: <<msg_type, seg, path>> with a non-empty value so far
  recorded_log,    \* history: the non-empty values recorded for a field, until it overflows
  no_fields,       \* history: no segment walked so far had a field
  type_values,     \* infer_type: the value mapping it is given
  inferred,        \* infer_type: its result, "" before the call
  collection,      \* two orders: the messages of the collection, counted
  pending_a,       \* two orders: the messages run A has not processed yet
  pending_b,       \* two orders: the messages run B has not processed yet
  fed_a,           \* two orders: the field statistics of run A
  fed_b,           \* two orders: the field statistics of run B
  tasks,           \* decoding: file -> the state of its task
  consumed,        \* decoding: the files whose future the collection loop has handled
  collected,       \* decoding: the list "messages" (each message named by its file)
  errors,          \* decoding: the list "errors" (each error named by its file)
  dec_pc,          \* decoding: the position of main
  rep_values,      \* report: the value mapping of the field (merged over the categories)
  rep_merged,      \* report: the number of categories merged so far
  rep_entry        \* report: the entry built for the field, None before

seq_vars == <<messages, seq_pc, profile>>

agg_vars == <<field_stats, seen_fields, msg_type, totals_by_type, agg_pc, out, steps,
              msg_start, msg_recorded, corpus_recorded, recorded_log, no_fields>>

inf_vars == <<type_values, inferred>>

ord_vars == <<collection, pending_a, pending_b, fed_a, fed_b>>

dec_vars == <<tasks, consumed, collected, errors, dec_pc>>

rep_vars == <<rep_values, rep_merged, rep_entry>>

vars == <<seq_vars, agg_vars, inf_vars, ord_vars, dec_vars, rep_vars>>

MsgShapes == UNION {[1..n -> SegNames] : n \in 0..MaxSegs}

NoProfile == [common_sequences |-> <<>>, segments |-> <<>>, total_messages |-> 0,
              merged_patterns |-> <<>>, canonical_sequences |-> <<>>]

NoOutput == [spec |-> <<>>, presence |-> <<>>]

SeqInit == messages = <<>> /\ seq_pc = "collect" /\ profile = NoProfile

AggInit ==
  /\ field_stats = <<>>
  /\ seen_fields = {}
  /\ msg_type = "none"
  /\ totals_by_type = <<>>
  /\ agg_pc = "loop"
  /\ out = NoOutput
  /\ steps = 0
  /\ msg_start = <<>>
  /\ msg_recorded = {}
  /\ corpus_recorded = {}
  /\ recorded_log = <<>>
  /\ no_fields = TRUE

InfInit == type_values = <<>> /\ inferred = ""

OrdInit ==
  /\ collection = [distinct |-> 0, total |-> 0]
  /\ pending_a = <<>>
  /\ pending_b = <<>>
  /\ fed_a = <<>>
  /\ fed_b = <<>>

DecInit ==
  /\ tasks = <<>>
  /\ consumed = {}
  /\ collected = <<>>
  /\ errors = <<>>
  /\ dec_pc = "start"

RepInit == rep_values = <<>> /\ rep_merged = 0 /\ rep_entry = [none |-> TRUE]

Init == SeqInit /\ AggInit /\ InfInit /\ OrdInit /\ DecInit /\ RepInit

\* the decoder hands over one more message of the category
AddMessage ==
  /\ seq_pc = "collect"
  /\ Len(messages) < MaxMsgs
  /\ \E m \in MsgShapes : messages' = Append(messages, m)
  /\ UNCHANGED <<seq_pc, profile, agg_vars, inf_vars, ord_vars, dec_vars, rep_vars>>

\* a percent computed whatever the number of patterns
DivisionByZero_unguarded(msgs) == Len(msgs) = 0

\* "count / total_messages" (line 109) runs once per merged pattern: it raises
\* ZeroDivisionError if there is a pattern and the total is 0
DivisionByZero(msgs) ==
  /\ Len(msgs) = 0
  /\ LET scan == ScanMessages(msgs, 1, [canon |-> <<>>, sp |-> <<>>])
         annotated == AnnotateAll(CountSequences(scan.canon, 1, <<>>), 1, scan.sp, <<>>)
     IN merge_similar_patterns(annotated, scan.sp, Len(msgs)) # <<>>

\* the profiler's part of a call of profile_sequences_for_type(messages)
RunProfileSeq ==
  /\ seq_pc = "collect"
  /\ IF DivisionByZero(messages)
     THEN seq_pc' = "fault" /\ profile' = profile
     ELSE seq_pc' = "done" /\ profile' = profile_sequences_for_type(messages)

\* profile_sequences_for_type(messages)
RunProfile ==
  /\ RunProfileSeq
  /\ UNCHANGED <<messages, agg_vars, inf_vars, ord_vars, dec_vars, rep_vars>>

SeqNext == AddMessage \/ RunProfile

SpecSeq == Init /\ [][SeqNext]_vars

\* aggregate_data, "for msg in messages": the next message starts (the aggregator's
\* variables)
BeginMessageAgg(category) ==
  /\ agg_pc = "loop"
  /\ seen_fields' = {}
  /\ msg_type' = category
  /\ totals_by_type' =
       [c \in DOMAIN totals_by_type \cup {category} |->
          (IF c \in DOMAIN totals_by_type THEN totals_by_type[c] ELSE 0)
          + (IF c = category THEN 1 ELSE 0)]
  /\ msg_start' = [key \in DOMAIN field_stats |->
                     [presence_count |-> field_stats[key].presence_count,
                      frozen |-> field_stats[key].frozen]]
  /\ msg_recorded' = {}
  /\ UNCHANGED <<field_stats, agg_pc, out, corpus_recorded, recorded_log, no_fields>>

BeginMessage(category) ==
  BeginMessageAgg(category) /\ UNCHANGED <<seq_vars, inf_vars, ord_vars, dec_vars, rep_vars>>

\* the values the segment carries: <<seg, path>> of every non-empty normalized value
CarriedPaths(segment) ==
  UNION {LET calls == UnifiedCalls(segment.fields[i], i,
                                   field_datatype(segment.name, i),
                                   i \in segment.repeating_fields)
         IN {<<segment.name, calls[j].path>> :
               j \in {n \in 1..Len(calls) : normalize_value(calls[n].value) # <<>>}}
         : i \in 1..Len(segment.fields)}

\* the non-empty normalized values the segment hands to process_field_value, in
\* call order, appended to the log of their <<msg_type, seg, path>>
RECURSIVE LogCalls(_, _, _, _, _)
LogCalls(log, calls, i, msg_type_, seg_name) ==
  IF i > Len(calls) THEN log
  ELSE LET key == <<msg_type_, seg_name, calls[i].path>>
           normalized == normalize_value(calls[i].value)
           before == IF key \in DOMAIN log THEN log[key] ELSE <<>>
       IN LogCalls(IF normalized = <<>> THEN log
                   ELSE [k \in DOMAIN log \cup {key} |->
                           IF k = key THEN Append(before, normalized) ELSE log[k]],
                   calls, i + 1, msg_type_, seg_name)

RECURSIVE LogFields(_, _, _, _)
LogFields(log, segment, field_index, msg_type_) ==
  IF field_index > Len(segment.fields) THEN log
  ELSE LogFields(LogCalls(log,
                          UnifiedCalls(segment.fields[field_index], field_index,
                                       field_datatype(segment.name, field_index),
                                       field_index \in segment.repeating_fields),
                          1, msg_type_, segment.name),
                 segment, field_index + 1, msg_type_)

\* aggregate_data, "for segment in msg['segments']": one segment of the message
\* (the aggregator's variables)
ProcessSegmentAgg(segment) ==
  /\ agg_pc = "loop"
  /\ msg_type # "none"
  /\ LET st == ProcessFields([fs |-> field_stats, seen |-> seen_fields], segment, 1, msg_type)
     IN /\ field_stats' = st.fs
        /\ seen_fields' = st.seen
  /\ msg_recorded' = msg_recorded \cup CarriedPaths(segment)
  /\ corpus_recorded' = corpus_recorded \cup
                          {<<msg_type, x[1], x[2]>> : x \in CarriedPaths(segment)}
  /\ LET st == ProcessFields([fs |-> field_stats, seen |-> seen_fields], segment, 1, msg_type)
         log == LogFields(recorded_log, segment, 1, msg_type)
     IN \* the log of a field is kept until the field overflows
        recorded_log' = [key \in DOMAIN log |->
                           IF st.fs[key].frozen THEN <<>> ELSE log[key]]
  /\ no_fields' = (no_fields /\ segment.fields = <<>>)
  /\ UNCHANGED <<msg_type, totals_by_type, agg_pc, out, msg_start>>

ProcessSegment(segment) ==
  ProcessSegmentAgg(segment) /\ UNCHANGED <<seq_vars, inf_vars, ord_vars, dec_vars, rep_vars>>

\* aggregate_data after the loop: the output format, then the consolidation (the
\* aggregator's variables)
FinalizeAgg ==
  /\ agg_pc = "loop"
  /\ out' = consolidate_single_component_fields(OutputSpec(field_stats),
                                                OutputPresence(field_stats))
  /\ agg_pc' = "done"
  /\ UNCHANGED <<field_stats, seen_fields, msg_type, totals_by_type,
                 msg_start, msg_recorded, corpus_recorded, recorded_log, no_fields>>

Finalize == FinalizeAgg /\ UNCHANGED <<steps, seq_vars, inf_vars, ord_vars, dec_vars, rep_vars>>

(***************************************************************************)
(* SpecAgg: a small corpus of two categories with composite, atomic and    *)
(* opaque fields.                                                          *)
(***************************************************************************)
MaxAggSteps == 5

Categories == {"ADT", "ORU"}

Segment(name, fields, repeating_fields) ==
  [name |-> name, fields |-> fields, repeating_fields |-> repeating_fields]

A == Str(<<"a">>)
B == Str(<<"b">>)
Empty == Str(<<>>)

CEValues == {A, List(<<A, B>>), List(<<A, Empty>>)}
CERepetitions == {List(<<List(<<A, B>>), B>>)}
STValues == {Str(<<" ", "a", " ">>), Str(<<" ">>)}
XCNValues == {List(<<A, B>>), List(<<List(<<A, Str(<<" ", "b">>)>>), List(<<B>>)>>)}

AggSegments ==
  {Segment("PID", <<v>>, {}) : v \in CEValues}
    \cup {Segment("PID", <<v>>, {1}) : v \in CERepetitions}
    \cup {Segment("PID", <<Empty, v>>, {}) : v \in STValues}
    \cup {Segment("PV1", <<v>>, {}) : v \in XCNValues}
    \cup {Segment("PV1", <<Empty, B>>, {})}
    \cup {Segment("PID", <<Empty, List(<<A, Str(<<" ", "a", " ">>)>>)>>, {2}),
          Segment("PV1", <<Empty, List(<<A, B>>)>>, {})}

\* the walk of a corpus of at most MaxAggSteps messages and segments
AggBeginMessage(category) ==
  steps < MaxAggSteps /\ BeginMessage(category) /\ steps' = steps + 1

AggProcessSegment(segment) ==
  steps < MaxAggSteps /\ ProcessSegment(segment) /\ steps' = steps + 1

AggNext ==
  \/ \E c \in Categories : AggBeginMessage(c)
  \/ \E s \in AggSegments : AggProcessSegment(s)
  \/ Finalize

SpecAgg == Init /\ [][AggNext]_vars

(***************************************************************************)
(* SpecCap: one atomic field driven to the cap.  Values are opaque to the  *)
(* counter, so a new value is always the next unused numeral; the value    *)
(* recorded again is the first one, "0".                                   *)
(***************************************************************************)
MaxCapMsgs == 3
MaxHot == 2

CapKey == <<"ADT", "OBX", <<1>>>>

CapValues == FSGet(field_stats, CapKey).values

Fresh == Str(<<ToString(Len(CapValues))>>)

Hot == Str(<<"0", " ">>)

CapSegments ==
  {Segment("OBX", <<Fresh>>, {}), Segment("OBX", <<Empty>>, {})}
    \cup (IF ODGet(CapValues, <<"0">>, 0) < MaxHot /\ Len(CapValues) >= MAX_UNIQUE - MaxHot
          THEN {Segment("OBX", <<Hot>>, {}),
                Segment("OBX", <<List(<<Fresh, Hot>>)>>, {1})}
          ELSE {})

CapMsgs == IF "ADT" \in DOMAIN totals_by_type THEN totals_by_type["ADT"] ELSE 0

CapBeginMessage == CapMsgs < MaxCapMsgs /\ BeginMessage("ADT") /\ UNCHANGED steps

CapProcessSegment(segment) == ProcessSegment(segment) /\ UNCHANGED steps

CapNext ==
  \/ CapBeginMessage
  \/ \E s \in CapSegments : CapProcessSegment(s)
  \/ Finalize

SpecCap == Init /\ [][CapNext]_vars

(***************************************************************************)
(* SpecCorpus: aggregate_data on a corpus of one category, with the        *)
(* sequence profile of the same messages taken at the end (line 256).      *)
(***************************************************************************)
CorpusSegments == AggSegments \cup {Segment("MSH", <<>>, {})}

CorpusBeginMessage ==
  /\ steps < MaxAggSteps
  /\ seq_pc = "collect"
  /\ BeginMessageAgg("ADT")
  /\ steps' = steps + 1
  /\ messages' = Append(messages, <<>>)
  /\ UNCHANGED <<seq_pc, profile, inf_vars, ord_vars, dec_vars, rep_vars>>

CorpusProcessSegment(segment) ==
  /\ steps < MaxAggSteps
  /\ ProcessSegmentAgg(segment)
  /\ steps' = steps + 1
  /\ messages' = [messages EXCEPT ![Len(messages)] = Append(@, <<segment.name>>)]
  /\ UNCHANGED <<seq_pc, profile, inf_vars, ord_vars, dec_vars, rep_vars>>

CorpusFinalize ==
  /\ FinalizeAgg
  /\ RunProfileSeq
  /\ UNCHANGED <<steps, messages, inf_vars, ord_vars, dec_vars, rep_vars>>

CorpusNext ==
  \/ CorpusBeginMessage
  \/ \E s \in CorpusSegments : CorpusProcessSegment(s)
  \/ CorpusFinalize

SpecCorpus == Init /\ [][CorpusNext]_vars

(***************************************************************************)
(* SpecInfer: infer_type on value mappings built key by key.               *)
(***************************************************************************)
MaxTypeKeys == 3

TypeSamples ==
  { <<"a", "b", "c">>,
    <<"2", "0", "2", "3", "0", "1", "0", "1">>,
    <<"2", "0", "2", "3", "0", "1", "0", "1", "1", "2", "3", "0">>,
    <<"2", "0", "2", "3", "0", "1", "0", "1", "1", "2", "3", "0", "0", "0">>,
    <<"1", "2", "3", "e", "4", "5", "6", "7", "-", "e", "8", "9", "b", "-",
      "1", "2", "d", "3", "-", "a", "4", "5", "6", "-",
      "4", "2", "6", "6", "1", "4", "1", "7", "4", "0", "0", "0">>,
    <<"-", "7">>,
    <<".", "5">>,
    <<"Y">>,
    <<"T", "r", "u", "e">>,
    <<>>,
    TOO_MANY }

\* one more key enters the mapping, with a count
AddTypeKey ==
  /\ Len(type_values) < MaxTypeKeys
  /\ \E k \in TypeSamples, v \in {1, 2} :
       /\ ~ODHas(type_values, k)
       /\ type_values' = Append(type_values, [k |-> k, v |-> v])
  /\ inferred' = ""
  /\ UNCHANGED <<seq_vars, agg_vars, ord_vars, dec_vars, rep_vars>>

\* infer_type(values)
InferType ==
  /\ inferred = ""
  /\ inferred' = infer_type(type_values)
  /\ UNCHANGED <<type_values, seq_vars, agg_vars, ord_vars, dec_vars, rep_vars>>

InfNext == AddTypeKey \/ InferType

SpecInfer == Init /\ [][InfNext]_vars

(***************************************************************************)
(* SpecOrder: aggregate_data run twice on the same collection of messages, *)
(* in two processing orders.  Every message is one OBX segment with one    *)
(* atomic field; a message joins the collection and waits, for each run,   *)
(* until that run processes it, so that the two runs can take the waiting  *)
(* messages in different orders.                                           *)
(***************************************************************************)
OrderWindow == 2
MaxOrderExtra == 2
MaxRepeats == 1

\* the next unused value, and the first value once more
OrderValues ==
  {Str(<<ToString(collection.distinct)>>)}
    \cup (IF /\ collection.distinct >= MAX_UNIQUE - OrderWindow
              /\ collection.total - collection.distinct < MaxRepeats
           THEN {Hot} ELSE {})

\* the two orders agree on the messages that come long before the cap is reached:
\* a run takes its waiting messages out of turn only near the cap
OutOfTurn == collection.distinct >= MAX_UNIQUE - OrderWindow

RemoveAt(s, i) == SubSeq(s, 1, i - 1) \o SubSeq(s, i + 1, Len(s))

\* one iteration of "for msg in messages" for a message of one segment: seen_fields
\* is reset, then the fields of the segment are processed
FeedMessage(fs, value) ==
  ProcessFields([fs |-> fs, seen |-> {}], Segment("OBX", <<value>>, {}), 1, "ADT").fs

\* one more message in the collection both runs are given
Submit(value) ==
  /\ Len(pending_a) < OrderWindow
  /\ Len(pending_b) < OrderWindow
  /\ collection.total < MAX_UNIQUE + MaxOrderExtra
  /\ collection' = [distinct |-> collection.distinct + (IF value # Hot THEN 1 ELSE 0),
                    total |-> collection.total + 1]
  /\ pending_a' = Append(pending_a, value)
  /\ pending_b' = Append(pending_b, value)
  /\ UNCHANGED <<fed_a, fed_b, seq_vars, agg_vars, inf_vars, dec_vars, rep_vars>>

\* run A processes one of its waiting messages
FeedA(i) ==
  /\ i \in 1..Len(pending_a)
  /\ i = 1 \/ OutOfTurn
  /\ fed_a' = FeedMessage(fed_a, pending_a[i])
  /\ pending_a' = RemoveAt(pending_a, i)
  /\ UNCHANGED <<collection, pending_b, fed_b, seq_vars, agg_vars, inf_vars, dec_vars, rep_vars>>

\* run B processes one of its waiting messages
FeedB(i) ==
  /\ i \in 1..Len(pending_b)
  /\ i = 1 \/ OutOfTurn
  /\ fed_b' = FeedMessage(fed_b, pending_b[i])
  /\ pending_b' = RemoveAt(pending_b, i)
  /\ UNCHANGED <<collection, pending_a, fed_a, seq_vars, agg_vars, inf_vars, dec_vars, rep_vars>>

OrderNext ==
  \/ \E v \in OrderValues : Submit(v)
  \/ \E i \in 1..OrderWindow : FeedA(i)
  \/ \E i \in 1..OrderWindow : FeedB(i)

SpecOrder == Init /\ [][OrderNext]_vars

(***************************************************************************)
(* SpecDecode: main.parse_files_parallel and the start of the aggregation. *)
(* A file is a number; what its task will meet is chosen when the task     *)
(* ends.  A decoded message is named by its file.                          *)
(***************************************************************************)
MaxFiles == 3
MaxWorkers == 2

\* Python's None
None == [none |-> TRUE]

\* what a task can meet: the file decodes, parse_hl7_message returns None, reading
\* the file raises, or the future's result() raises
Fates == {"decodes", "unparsable", "unreadable", "raises"}

\* parse_single_file(file_path): the pair (parsed, error) it returns
parse_single_file(file_path, fate) ==
  CASE fate = "decodes" -> [parsed_msg |-> [file |-> file_path], error |-> None]
    [] fate = "unparsable" -> [parsed_msg |-> None, error |-> None]
    [] OTHER -> [parsed_msg |-> None, error |-> [file |-> file_path]]

Running == {f \in DOMAIN tasks : tasks[f].state = "running"}

Completed == {f \in DOMAIN tasks : tasks[f].state \in {"returned", "raised"}}

\* "max_workers = min(cpu_count(), len(file_paths), 8)" on a machine of MaxWorkers
max_workers == IF Len(tasks) < MaxWorkers THEN Len(tasks) ELSE MaxWorkers

\* "future_to_file = {executor.submit(parse_single_file, file_path): ...}"
SubmitJobs(n) ==
  /\ dec_pc = "start"
  /\ tasks' = [f \in 1..n |-> [state |-> "queued", result |-> None]]
  /\ dec_pc' = "collect"
  /\ UNCHANGED <<consumed, collected, errors, seq_vars, agg_vars, inf_vars, ord_vars, rep_vars>>

\* a free worker takes a queued task
StartTask(f) ==
  /\ f \in DOMAIN tasks
  /\ tasks[f].state = "queued"
  /\ Cardinality(Running) < max_workers
  /\ tasks' = [tasks EXCEPT ![f].state = "running"]
  /\ UNCHANGED <<consumed, collected, errors, dec_pc,
                 seq_vars, agg_vars, inf_vars, ord_vars, rep_vars>>

\* the task ends: parse_single_file has returned, or the future holds an exception
FinishTask(f, fate) ==
  /\ f \in DOMAIN tasks
  /\ tasks[f].state = "running"
  /\ tasks' = [tasks EXCEPT ![f] =
                 IF fate = "raises" THEN [state |-> "raised", result |-> None]
                 ELSE [state |-> "returned", result |-> parse_single_file(f, fate)]]
  /\ UNCHANGED <<consumed, collected, errors, dec_pc,
                 seq_vars, agg_vars, inf_vars, ord_vars, rep_vars>>

\* every message is kept, decoded or not
KeepsMessage_always(parsed_msg) == TRUE

\* "if parsed_msg:"
KeepsMessage(parsed_msg) == parsed_msg # None

\* one iteration of "for future in as_completed(future_to_file)" (lines 81-95)
CollectResult(f) ==
  /\ dec_pc = "collect"
  /\ f \in Completed \ consumed
  /\ consumed' = consumed \cup {f}
  /\ IF tasks[f].state = "raised"
     THEN /\ errors' = Append(errors, [file |-> f])
          /\ collected' = collected
     ELSE /\ collected' = IF KeepsMessage(tasks[f].result.parsed_msg)
                          THEN Append(collected, tasks[f].result.parsed_msg)
                          ELSE collected
          /\ errors' = IF tasks[f].result.error # None
                       THEN Append(errors, tasks[f].result.error)
                       ELSE errors
  /\ UNCHANGED <<tasks, dec_pc, seq_vars, agg_vars, inf_vars, ord_vars, rep_vars>>

\* the loop has handled every future: "return messages, errors"
ReturnMessages ==
  /\ dec_pc = "collect"
  /\ consumed = DOMAIN tasks
  /\ dec_pc' = "returned"
  /\ UNCHANGED <<tasks, consumed, collected, errors,
                 seq_vars, agg_vars, inf_vars, ord_vars, rep_vars>>

\* main, lines 233-245: "if not messages: sys.exit(1)", then aggregate_data(messages)
StartAggregation ==
  /\ dec_pc = "returned"
  /\ dec_pc' = IF collected = <<>> THEN "exit" ELSE "aggregate"
  /\ UNCHANGED <<tasks, consumed, collected, errors,
                 seq_vars, agg_vars, inf_vars, ord_vars, rep_vars>>

DecodeNext ==
  \/ \E n \in 1..MaxFiles : SubmitJobs(n)
  \/ \E f \in 1..MaxFiles : StartTask(f)
  \/ \E f \in 1..MaxFiles, fate \in Fates : FinishTask(f, fate)
  \/ \E f \in 1..MaxFiles : CollectResult(f)
  \/ ReturnMessages
  \/ StartAggregation

SpecDecode == Init /\ [][DecodeNext]_vars

(***************************************************************************)
(* SpecReport: the entry of one field of the report.  The value mapping is *)
(* merged over the categories that have the field (one category for an     *)
(* individual report), then the entry is built.                            *)
(***************************************************************************)
MaxMerges == 3
BlockSize == 99

\* the value mappings of one category: small ones, the sentinel, and a block of
\* BlockSize numerals
FieldCounters ==
  { <<[k |-> <<"a">>, v |-> 1]>>,
    <<[k |-> <<"b">>, v |-> 2], [k |-> <<"a">>, v |-> 1]>>,
    <<[k |-> <<"c", "d">>, v |-> 3]>>,
    <<[k |-> TOO_MANY, v |-> 1]>>,
    [i \in 1..BlockSize |-> [k |-> NumChars(i), v |-> 1]] }

ReportFields ==
  { <<"GT1", <<2>>>>, <<"GT1", <<21>>>>, <<"PID", <<5, 1>>>>, <<"PID", <<1>>>>,
    <<"OBX", <<14>>>>, <<"OBR", <<1>>>>, <<"OBX", <<1>>>>, <<"NK1", <<3>>>> }

\* Counter.update(field_data): the counts of the keys already there are added to,
\* the new keys follow in the order of field_data
CounterUpdate(merged_values, field_data) ==
  [i \in 1..Len(merged_values) |->
     [k |-> merged_values[i].k,
      v |-> merged_values[i].v + ODGet(field_data, merged_values[i].k, 0)]]
    \o SelectSeq(field_data, LAMBDA e : ~ODHas(merged_values, e.k))

\* "merged_values.update(field_data)" for one more category
MergeCategory(field_data) ==
  /\ rep_entry = None
  /\ rep_merged < MaxMerges
  /\ rep_values' = CounterUpdate(rep_values, field_data)
  /\ rep_merged' = rep_merged + 1
  /\ UNCHANGED <<rep_entry, seq_vars, agg_vars, inf_vars, ord_vars, dec_vars>>

\* "if merged_values:", the entry of the field
BuildEntry(seg_name, field_path) ==
  /\ rep_entry = None
  /\ rep_values # <<>>
  /\ rep_entry' = [segment |-> seg_name, field_path |-> field_path,
                   entry |-> field_entry(seg_name, field_path, rep_values)]
  /\ UNCHANGED <<rep_values, rep_merged, seq_vars, agg_vars, inf_vars, ord_vars, dec_vars>>

ReportNext ==
  \/ \E field_data \in FieldCounters : MergeCategory(field_data)
  \/ \E f \in ReportFields : BuildEntry(f[1], f[2])

SpecReport == Init /\ [][ReportNext]_vars

(***************************************************************************)
(* Properties of the sequence profiler.                                    *)
(***************************************************************************)
Done == seq_pc = "done"

Patterns == profile.common_sequences

\* the canonical tuple of one message, as the scan computes it
Canonical(msg) ==
  ScanSegments(msg, 1, [order |-> <<>>, occ |-> <<>>, uniq |-> {}, sp |-> <<>>]).order

CanonicalSet == {Canonical(messages[i]) : i \in 1..Len(messages)}

IsBracketed(token) == Len(token) > 0 /\ token[1] = "["

HasPlus(token) == InSeq("+", token)

\* s is an order-preserving subsequence of l
IsSubseqOf(s, l) ==
  \E f \in [1..Len(s) -> 1..Len(l)] :
    /\ \A i \in 1..Len(s) : l[f[i]] = s[i]
    /\ \A i, j \in 1..Len(s) : i < j => f[i] < f[j]

\* the number of messages that contain segment name at least once
PresentIn(name) == Cardinality({i \in 1..Len(messages) : InSeq(name, messages[i])})

\* C1: after the profiler has run, the counts of the final patterns add up to the
\* number of messages of the category, and so do the counts of the merge targets:
\* no tuple's count is lost, counted twice or overwritten.
C1_CountConservation ==
  Done =>
    /\ SumSeq([i \in 1..Len(Patterns) |-> Patterns[i].count]) = Len(messages)
    /\ ODSum(profile.merged_patterns) = Len(messages)
    /\ profile.total_messages = Len(messages)

\* C1 witness: three distinct canonical tuples end in two stored merge targets
C1_Witness ==
  /\ Done
  /\ Cardinality(CanonicalSet) = 3
  /\ Len(Patterns) = 2
  /\ \E i \in 1..2 : Patterns[i].count = 2

\* C6: if some message holds segment S more than once, every token for S in every
\* final pattern carries the repeat marker: S+ when S is in every message, [S+]
\* when S is absent from some message.
C6_RepeatMarkerEverywhere ==
  Done =>
    \A i \in 1..Len(Patterns) : \A j \in 1..Len(Patterns[i].sequence) :
      LET token == Patterns[i].sequence[j]
          S == clean_segment_name(token)
      IN (\E m \in 1..Len(messages) :
            Cardinality({k \in 1..Len(messages[m]) : messages[m][k] = S}) > 1)
         => token = (IF PresentIn(S) = Len(messages) THEN fmt_plus(S) ELSE fmt_opt_plus(S))

\* the precondition of C7: two distinct canonical sequences, one a strictly
\* shorter subsequence of the other
TwoNested(shorter, longer) ==
  /\ CanonicalSet = {shorter, longer}
  /\ Len(shorter) < Len(longer)
  /\ IsSubseqOf(shorter, longer)

\* C7: when the messages have exactly two distinct canonical sequences, one a
\* strictly shorter subsequence of the other, the output is one pattern in the
\* longer sequence's order with the category total as count (100.0 percent), in
\* which exactly the names absent from the shorter sequence are bracketed.
C7_SubsequenceMerge ==
  Done =>
    \A shorter \in CanonicalSet : \A longer \in CanonicalSet :
      TwoNested(shorter, longer) =>
        /\ Len(Patterns) = 1
        /\ CleanAll(Patterns[1].sequence) = longer
        /\ Patterns[1].count = Len(messages)
        /\ Patterns[1].percent = 1000
        /\ \A j \in 1..Len(longer) :
             IsBracketed(Patterns[1].sequence[j]) <=> ~InSeq(longer[j], shorter)

\* C7 witness: a nested pair whose longer sequence names a segment twice and
\* lacks nothing but one name of the shorter
C7_Witness ==
  /\ Done
  /\ \E shorter \in CanonicalSet : \E longer \in CanonicalSet :
       /\ TwoNested(shorter, longer)
       /\ Len(longer) = 3 /\ Len(shorter) = 2
       /\ \E j \in 1..3 : IsBracketed(Patterns[1].sequence[j])

\* C10: in every final pattern a token is bracketed exactly when its segment is
\* absent from some message; the sweep keeps the brackets of the merge step; and
\* the sweep applied to its own output changes nothing.
C10_FinalSweep ==
  Done =>
    /\ \A i \in 1..Len(Patterns) : \A j \in 1..Len(Patterns[i].sequence) :
         LET token == Patterns[i].sequence[j]
         IN IsBracketed(token) <=> PresentIn(clean_segment_name(token)) < Len(messages)
    /\ \A i \in 1..Len(profile.merged_patterns) :
         LET before == profile.merged_patterns[i].k
             after == FinalPattern(before, profile.segments, profile.total_messages)
         IN \A j \in 1..Len(before) : IsBracketed(before[j]) => IsBracketed(after[j])
    /\ \A i \in 1..Len(Patterns) :
         FinalPattern(Patterns[i].sequence, profile.segments, profile.total_messages)
           = Patterns[i].sequence

(***************************************************************************)
(* Properties of the aggregator.                                           *)
(***************************************************************************)
AggDone == agg_pc = "done"

\* the keys of a value mapping other than the sentinel
NonSentinelKeys(stats) == ODKeys(stats.values) \ {TOO_MANY}

\* presence_count and frozen of a field when the current message started
AtMsgStart(key) ==
  IF key \in DOMAIN msg_start THEN msg_start[key]
  ELSE [presence_count |-> 0, frozen |-> FALSE]

\* C2: in every reachable state every FieldStats holds at most 100 distinct keys
\* other than the sentinel.
C2_CapInvariant ==
  \A key \in DOMAIN field_stats :
    Cardinality(NonSentinelKeys(field_stats[key])) <= 100

\* C2 witness: a field that holds exactly 100 distinct values, each recorded
C2_Witness ==
  \E key \in DOMAIN field_stats :
    /\ Cardinality(NonSentinelKeys(field_stats[key])) = 100
    /\ ~field_stats[key].frozen

\* C3: once a field has overflowed, no step changes it: the flag stays set, the
\* mapping is and stays {sentinel: 1}, the presence counter keeps its value.
C3_OverflowFreezes ==
  [][\A key \in DOMAIN field_stats :
       field_stats[key].frozen =>
         /\ field_stats[key].values = <<[k |-> TOO_MANY, v |-> 1]>>
         /\ key \in DOMAIN field_stats'
         /\ field_stats'[key] = field_stats[key]]_vars

\* C3 witness: a message that started after the overflow carries a value for the
\* overflowed field
C3_Witness ==
  \E key \in DOMAIN field_stats :
    /\ field_stats[key].frozen
    /\ AtMsgStart(key).frozen
    /\ key[1] = msg_type
    /\ <<key[2], key[3]>> \in msg_recorded

\* C4: recording a value that is already a key of a field that has not overflowed
\* increments that key's count and leaves the field not overflowed, however many
\* keys the field holds; only a value that is not a key can overflow it.
C4_OverflowOnlyOnNewKey ==
  \A key \in DOMAIN field_stats :
    LET stats == field_stats[key]
    IN ~stats.frozen =>
         \A i \in 1..Len(stats.values) :
           LET after == process_field_value([stats |-> stats, seen |-> seen_fields],
                                            Str(stats.values[i].k), key[3], key[2]).stats
           IN /\ ~after.frozen
              /\ after.values = [stats.values EXCEPT ![i].v = @ + 1]

\* values that are empty after the trim
BlankValues == {Str(<<>>), Str(<<" ">>), List(<<Str(<<" ">>), Str(<<>>)>>)}

\* C5: while a message is processed, the presence counter of a field that was not
\* overflowed when the message started is its value at message start plus 1 if the
\* message has carried a non-empty value at that path and plus 0 otherwise, however
\* many values it carried; a value that is empty after the trim changes nothing.
C5_PresenceOncePerMessage ==
  /\ \A key \in DOMAIN field_stats :
       ~AtMsgStart(key).frozen =>
         field_stats[key].presence_count - AtMsgStart(key).presence_count
           = (IF key[1] = msg_type /\ <<key[2], key[3]>> \in msg_recorded THEN 1 ELSE 0)
  /\ \A key \in DOMAIN field_stats : \A blank \in BlankValues :
       LET st == [stats |-> field_stats[key], seen |-> seen_fields]
       IN process_field_value(st, blank, key[3], key[2]) = st

\* C5 witness: one message of a category carried two values at one path, and the
\* presence count of the path is 1
C5_Witness ==
  \E key \in DOMAIN field_stats :
    /\ key[1] = msg_type
    /\ totals_by_type[msg_type] = 1
    /\ <<key[2], key[3]>> \in msg_recorded
    /\ ODSum(field_stats[key].values) >= 2
    /\ field_stats[key].presence_count = 1

\* the value tree and the presence table before the consolidation
TreeBefore == OutputSpec(field_stats)
PresenceBefore == OutputPresence(field_stats)

\* some message of the corpus recorded a value at a component k >= 2 of the field
SecondComponentSeen(seg_name, base_field) ==
  \E r \in corpus_recorded :
    r[2] = seg_name /\ r[3][1] = base_field /\ Len(r[3]) = 2 /\ r[3][2] >= 2

\* C8: if any message of the corpus recorded a value at a component N.k, k >= 2, of
\* a segment's field N, the path N.1 of that field is left as it is by the
\* consolidation, in every category.
C8_SecondComponentBlocks ==
  AggDone =>
    \A key \in DOMAIN TreeBefore :
      (Len(key[3]) = 2 /\ key[3][2] = 1 /\ SecondComponentSeen(key[2], key[3][1]))
        => key \in DOMAIN out.spec /\ key \in DOMAIN out.presence

\* the precondition of C9 for the entry at key = <<category, segment, N.1>>
OnlyFirstComponent(key) ==
  /\ Len(key[3]) = 2 /\ key[3][2] = 1
  /\ field_datatype(key[2], key[3][1]) \notin {"XCN", "PPN", "CX", "XAD", "XTN", "XPN"}
  /\ \A other \in DOMAIN TreeBefore :
       (other[1] = key[1] /\ other[2] = key[2] /\ other[3][1] = key[3][1]) => other = key
  /\ TreeBefore[key] # <<>>

\* C9: when N.1 is the only path of a field N of a datatype outside the excluded
\* set, and it has data, the consolidation leaves N with the counts and the
\* presence of N.1 in both tables, and N.1 in neither.
C9_ConsolidationRename ==
  AggDone =>
    \A key \in DOMAIN TreeBefore :
      OnlyFirstComponent(key) =>
        /\ BaseKey(key) \in DOMAIN out.spec /\ BaseKey(key) \in DOMAIN out.presence
        /\ out.spec[BaseKey(key)] = TreeBefore[key]
        /\ out.presence[BaseKey(key)] = PresenceBefore[key]
        /\ key \notin DOMAIN out.spec /\ key \notin DOMAIN out.presence

\* C9 witness: a field recorded only as N.1, in two messages of a category
C9_Witness ==
  /\ AggDone
  /\ \E key \in DOMAIN TreeBefore :
       /\ OnlyFirstComponent(key)
       /\ PresenceBefore[key] = 2
       /\ ODSum(TreeBefore[key]) >= 2
       /\ BaseKey(key) \in DOMAIN out.spec

\* a value mapping with a key that is neither the sentinel nor blank
RetainsValue(values) ==
  \E i \in 1..Len(values) :
    values[i].k # TOO_MANY /\ \E c \in 1..Len(values[i].k) : values[i].k[c] \notin Whitespace

\* C11: a FieldStats is carried into the output value tree and the presence table
\* if and only if its mapping is non-empty, its presence count is > 0 and it retains
\* a non-blank non-sentinel value; the entries carried are its mapping and its
\* presence count, and no mapping of the output tree contains the sentinel.
C11_OutputFilter ==
  AggDone =>
    /\ \A key \in DOMAIN field_stats :
         LET stats == field_stats[key]
             carried == Len(stats.values) > 0 /\ stats.presence_count > 0
                          /\ RetainsValue(stats.values)
         IN /\ (key \in DOMAIN out.spec) <=> carried
            /\ (key \in DOMAIN out.presence) <=> carried
            /\ carried => /\ out.spec[key] = stats.values
                          /\ out.presence[key] = stats.presence_count
    /\ DOMAIN out.spec \subseteq DOMAIN field_stats
    /\ \A key \in DOMAIN out.spec : ~ODHas(out.spec[key], TOO_MANY)

\* C11 witness: the aggregation finished with the field overflowed by a third
\* message, and dropped
C11_Witness ==
  /\ AggDone
  /\ CapKey \in DOMAIN field_stats
  /\ field_stats[CapKey].frozen
  /\ field_stats[CapKey].presence_count = 3
  /\ CapKey \notin DOMAIN out.spec

(***************************************************************************)
(* Properties of infer_type.                                               *)
(***************************************************************************)
\* the positions of the keys of the mapping that are not the sentinel
RealKeyPositions == {i \in 1..Len(type_values) : type_values[i].k # TOO_MANY}

FirstRealKey ==
  type_values[CHOOSE i \in RealKeyPositions : \A j \in RealKeyPositions : i <= j].k

\* C12: the tag infer_type gives a mapping is the tag of the mapping that holds only
\* its first non-sentinel key, whatever the other keys and the counts; "abc" first
\* gives string, "20230101" first gives yyyyMMdd; no non-sentinel key, or an empty
\* first key, gives unknown.
C12_FirstSampleDriven ==
  inferred # "" =>
    /\ RealKeyPositions = {} => inferred = "unknown"
    /\ RealKeyPositions # {} =>
         /\ inferred = infer_type(<<[k |-> FirstRealKey, v |-> 1]>>)
         /\ FirstRealKey = <<>> => inferred = "unknown"
         /\ FirstRealKey = <<"a", "b", "c">> => inferred = "string"
         /\ FirstRealKey = <<"2", "0", "2", "3", "0", "1", "0", "1">>
              => inferred = "yyyyMMdd"

\* C12 witness: the sentinel, then "20230101", then "abc": the tag is yyyyMMdd
C12_Witness ==
  /\ Len(type_values) = 3
  /\ type_values[1].k = TOO_MANY
  /\ type_values[2].k = <<"2", "0", "2", "3", "0", "1", "0", "1">>
  /\ type_values[3].k = <<"a", "b", "c">>
  /\ inferred = "yyyyMMdd"

(***************************************************************************)
(* Further properties of the sequence profiler.                            *)
(***************************************************************************)
\* C13: if all n >= 1 messages of the category have the same canonical sequence,
\* the output is exactly one pattern: its tokens are the names of that sequence in
\* order, each bare or with the repeat marker and none bracketed, its count is n
\* and its percent is 100.0.
C13_UniformCategory ==
  (Done /\ Len(messages) >= 1 /\ Cardinality(CanonicalSet) = 1) =>
    LET canon == CHOOSE c \in CanonicalSet : TRUE
    IN /\ Len(Patterns) = 1
       /\ Len(Patterns[1].sequence) = Len(canon)
       /\ \A j \in 1..Len(canon) :
            Patterns[1].sequence[j] \in {canon[j], canon[j] \o <<"+">>}
       /\ Patterns[1].count = Len(messages)
       /\ Patterns[1].percent = 1000

\* C13 witness: three messages with the canonical sequence MSH, PID, OBX
C13_Witness ==
  /\ Done
  /\ Len(messages) = 3
  /\ CanonicalSet = {<<<<"MSH">>, <<"PID">>, <<"OBX">>>>}
  /\ Len(Patterns) = 1

\* the aggregation and the profile have both ended, in a result or in a fault
CorpusEnded == agg_pc = "done" /\ seq_pc \in {"done", "fault"}

\* C14 as stated: on a collection that is empty, or whose messages have no segments
\* or no fields, both runs end without a fault and yield an empty pattern list, an
\* empty per-segment map, a total of 0 and an empty field tree.
C14_DegenerateAllEmpty ==
  (CorpusEnded /\ no_fields) =>
    /\ seq_pc = "done"
    /\ Patterns = <<>>
    /\ profile.segments = <<>>
    /\ profile.total_messages = 0
    /\ out.spec = <<>>

\* C14 amended: both runs end without a fault on every collection; the field tree
\* and the presence table are empty when no message has a field; the empty
\* collection yields an empty pattern list, an empty per-segment map and a total of
\* 0; n >= 1 messages without segments yield an empty per-segment map, the total n
\* and the single pattern with no token, count n and percent 100.0.
C14_Degenerate ==
  CorpusEnded =>
    /\ seq_pc = "done"
    /\ no_fields => out.spec = <<>> /\ out.presence = <<>>
    /\ messages = <<>> =>
         /\ Patterns = <<>>
         /\ profile.segments = <<>>
         /\ profile.total_messages = 0
         /\ totals_by_type = <<>>
    /\ (messages # <<>> /\ \A i \in 1..Len(messages) : messages[i] = <<>>) =>
         /\ profile.segments = <<>>
         /\ profile.total_messages = Len(messages)
         /\ Patterns = <<[sequence |-> <<>>, count |-> Len(messages), percent |-> 1000]>>

\* C14 witness: the run on the empty collection has ended
C14_Witness == CorpusEnded /\ messages = <<>> /\ no_fields /\ steps = 0

(***************************************************************************)
(* Further properties of the aggregator.                                   *)
(***************************************************************************)
\* the values recorded for a field so far, in processing order
LogOf(key) == IF key \in DOMAIN recorded_log THEN recorded_log[key] ELSE <<>>

\* the position of the first recording of a value
FirstRecording(log, value) ==
  CHOOSE n \in 1..Len(log) : log[n] = value /\ \A j \in 1..(n - 1) : log[j] # value

\* C15: as long as a field has not overflowed, the keys of its mapping are the
\* distinct non-empty normalized values recorded for it so far, in the order of
\* their first recording, and the count of each key is the number of times the
\* value was recorded.
C15_ExactCounting ==
  \A key \in DOMAIN field_stats :
    ~field_stats[key].frozen =>
      LET mapping == field_stats[key].values
          log == LogOf(key)
      IN /\ \A n \in 1..Len(log) : \E i \in 1..Len(mapping) : mapping[i].k = log[n]
         /\ \A i \in 1..Len(mapping) :
              mapping[i].v = Cardinality({n \in 1..Len(log) : log[n] = mapping[i].k})
         /\ \A i \in 1..(Len(mapping) - 1) :
              FirstRecording(log, mapping[i].k) < FirstRecording(log, mapping[i + 1].k)

\* C15 witness: a field holds 100 keys, one of them recorded twice
C15_Witness ==
  \E key \in DOMAIN field_stats :
    /\ ~field_stats[key].frozen
    /\ Len(field_stats[key].values) = 100
    /\ \E i \in 1..100 : field_stats[key].values[i].v = 2
    /\ Len(LogOf(key)) = 101

\* the values the step has appended to the log of a field
Appended(key) ==
  LET before == LogOf(key)
      after == IF key \in DOMAIN recorded_log' THEN recorded_log'[key] ELSE <<>>
  IN SubSeq(after, Len(before) + 1, Len(after))

\* C16: processing one occurrence of a non-repeating field of an opaque-collapse
\* datatype (XCN, PPN) records at most one value, the whole field value collapsed
\* into one joined string, at the bare base path, and nothing at a component path,
\* whatever the nesting of the value.
C16_OpaqueCollapse ==
  [][\A s \in AggSegments :
       AggProcessSegment(s) =>
         \A i \in 1..Len(s.fields) :
           (field_datatype(s.name, i) \in {"XCN", "PPN"} /\ i \notin s.repeating_fields) =>
             LET whole == normalize_value(Str(collapse_complex_components(s.fields[i])))
             IN /\ Appended(<<msg_type, s.name, <<i>>>>)
                     = (IF whole = <<>> THEN <<>> ELSE <<whole>>)
                /\ \A k \in 1..3 : Appended(<<msg_type, s.name, <<i, k>>>>) = <<>>]_vars

\* the repetitions of a field value
RepetitionsOf(s, i) ==
  IF i \in s.repeating_fields /\ IsList(s.fields[i]) THEN s.fields[i].list ELSE <<s.fields[i]>>

\* what the repetitions of field i of segment s put at component k (k = 0: at the
\* bare base path), empty values left out
ExpectedAt(s, i, k) ==
  LET reps == RepetitionsOf(s, i)
      composite == is_complex_type(field_datatype(s.name, i))
      part(r) ==
        IF ~composite THEN (IF k = 0 THEN normalize_value(r) ELSE <<>>)
        ELSE IF k = 0 THEN <<>>
        ELSE IF IsList(r)
        THEN (IF k <= Len(r.list) THEN normalize_value(r.list[k]) ELSE <<>>)
        ELSE (IF k = 1 THEN normalize_value(r) ELSE <<>>)
  IN SelectSeq([n \in 1..Len(reps) |-> part(reps[n])], LAMBDA v : v # <<>>)

\* C17: for a field that the opaque-collapse rule does not handle, a composite
\* datatype records the i-th non-empty component of each repetition that is a list at
\* base.i, each repetition that is not a list at base.1, and nothing at the bare base
\* path; a non-composite datatype records every repetition whole at the bare base path
\* and nothing at a component path.
C17_ComponentDecomposition ==
  [][\A s \in AggSegments :
       AggProcessSegment(s) =>
         \A i \in 1..Len(s.fields) :
           ~(field_datatype(s.name, i) \in {"XCN", "PPN"} /\ i \notin s.repeating_fields) =>
             /\ Appended(<<msg_type, s.name, <<i>>>>) = ExpectedAt(s, i, 0)
             /\ \A k \in 1..3 :
                  Appended(<<msg_type, s.name, <<i, k>>>>) = ExpectedAt(s, i, k)
             /\ \A key \in DOMAIN recorded_log' :
                  (key[1] = msg_type /\ key[2] = s.name /\ key[3][1] = i /\ Len(key[3]) = 2)
                    => key[3][2] \in 1..3]_vars

\* C17 witness: a repeating composite field has put the component of a list
\* repetition and a repetition that is not a list at base.1, and a component at base.2
C17_Witness ==
  \E c \in Categories :
    /\ LogOf(<<c, "PID", <<1, 1>>>>) = <<<<"a">>, <<"b">>>>
    /\ LogOf(<<c, "PID", <<1, 2>>>>) = <<<<"b">>>>
    /\ LogOf(<<c, "PID", <<1>>>>) = <<>>
    /\ LogOf(<<c, "PID", <<2>>>>) = <<<<"a">>, <<"a">>>>

(***************************************************************************)
(* Properties of the profiler's scan.                                      *)
(***************************************************************************)
\* the positions of a message at which a maximal run of equal adjacent names starts
RunStarts(msg) == {p \in 1..Len(msg) : p = 1 \/ msg[p - 1] # msg[p]}

\* the message with every maximal run of equal adjacent names replaced by one name
RunsCollapsed(msg) ==
  LET starts == RunStarts(msg)
      Nth(n) == CHOOSE p \in starts : Cardinality({q \in starts : q <= p}) = n
  IN [n \in 1..Cardinality(starts) |-> msg[Nth(n)]]

\* C18: the canonical tuple of a message is its list of segment names with every
\* maximal run of adjacent equal names replaced by one token: the order of the names
\* is kept, no two adjacent tokens are equal, and a name that comes back after
\* another name is a token again.
C18_Canonicalization ==
  Done =>
    /\ Len(profile.canonical_sequences) = Len(messages)
    /\ \A m \in 1..Len(messages) :
         LET canon == profile.canonical_sequences[m]
         IN /\ canon = RunsCollapsed(messages[m])
            /\ \A j \in 1..(Len(canon) - 1) : canon[j] # canon[j + 1]
            /\ IsSubseqOf(canon, messages[m])

\* C18 witness: a message with an adjacent run and one with a name that comes back
C18_Witness ==
  /\ Done
  /\ \E m, n \in 1..Len(messages) :
       /\ messages[m] = <<<<"MSH">>, <<"MSH">>, <<"PID">>>>
       /\ profile.canonical_sequences[m] = <<<<"MSH">>, <<"PID">>>>
       /\ messages[n] = <<<<"MSH">>, <<"PID">>, <<"MSH">>>>
       /\ profile.canonical_sequences[n] = messages[n]

\* the number of occurrences of a segment name in a message
Occurrences(name, msg) == Cardinality({p \in 1..Len(msg) : msg[p] = name})

\* C19: the per-segment map has an entry for exactly the segment names of the
\* category's messages; present_in is the number of messages that contain the name
\* at least once, so at most the total; repeats is true if and only if some message
\* contains the name more than once, adjacent or not.
C19_PerSegmentMap ==
  Done =>
    /\ DOMAIN profile.segments =
         UNION {{messages[m][p] : p \in 1..Len(messages[m])} : m \in 1..Len(messages)}
    /\ \A name \in DOMAIN profile.segments :
         /\ profile.segments[name].present_in =
              Cardinality({m \in 1..Len(messages) : Occurrences(name, messages[m]) >= 1})
         /\ profile.segments[name].present_in <= profile.total_messages
         /\ profile.segments[name].repeats <=>
              \E m \in 1..Len(messages) : Occurrences(name, messages[m]) >= 2

\* C19 witness: a name that two of three messages contain, one of them twice with
\* another name between
C19_Witness ==
  /\ Done
  /\ Len(messages) = 3
  /\ \E name \in DOMAIN profile.segments :
       /\ profile.segments[name].present_in = 2
       /\ profile.segments[name].repeats
       /\ \A m \in 1..3 : \A p \in 1..(Len(messages[m]) - 1) :
            ~(messages[m][p] = name /\ messages[m][p + 1] = name)

(***************************************************************************)
(* Properties of the union merge.                                          *)
(***************************************************************************)
\* the first canonical tuple of the corpus and the other one, when there are two
FirstTuple == Canonical(messages[1])

SecondTuple == CHOOSE c \in CanonicalSet : c # FirstTuple

\* the corpus has two canonical tuples, neither a subsequence of the other, and the
\* merge has made one pattern of them
UnionMerged ==
  /\ Done
  /\ Cardinality(CanonicalSet) = 2
  /\ ~IsSubseqOf(FirstTuple, SecondTuple)
  /\ ~IsSubseqOf(SecondTuple, FirstTuple)
  /\ Len(profile.merged_patterns) = 1

MergedPattern == profile.merged_patterns[1].k

\* the names of the second tuple that the first tuple lacks, in the second's order
MissingFromFirst == SelectSeq(SecondTuple, LAMBDA x : ~InSeq(x, FirstTuple))

\* the names of a sequence, each at its first occurrence
DistinctNames(seq) ==
  LET first == {p \in 1..Len(seq) : \A q \in 1..(p - 1) : seq[q] # seq[p]}
      Nth(n) == CHOOSE p \in first : Cardinality({q \in first : q <= p}) = n
  IN [n \in 1..Cardinality(first) |-> seq[Nth(n)]]

\* the tokens of the merged pattern whose name only one of the two tuples has are
\* bracketed
OnlyInOneBracketed ==
  \A j \in 1..Len(MergedPattern) :
    LET name == clean_segment_name(MergedPattern[j])
    IN (InSeq(name, FirstTuple) # InSeq(name, SecondTuple)) => IsBracketed(MergedPattern[j])

\* C20 as stated: the names of a union-merged pattern are the first tuple's full name
\* sequence, then the second tuple's names that the first lacks, in the second's
\* order; the segments of only one tuple are bracketed.
C20_UnionMergeOrder ==
  UnionMerged =>
    /\ CleanAll(MergedPattern) = FirstTuple \o MissingFromFirst
    /\ OnlyInOneBracketed

\* C20 amended: the names of a union-merged pattern are the distinct names of the
\* first tuple in the order of their first occurrence, then the distinct names of the
\* second tuple that the first lacks, in the order of their first occurrence; the
\* segments of only one tuple are bracketed.
C20_UnionMergeDistinct ==
  UnionMerged =>
    /\ CleanAll(MergedPattern) = DistinctNames(FirstTuple) \o DistinctNames(MissingFromFirst)
    /\ OnlyInOneBracketed

\* C20 witness: a union merge in which the second tuple brings two names
C20_Witness ==
  /\ UnionMerged
  /\ Len(MissingFromFirst) = 2
  /\ Len(MergedPattern) = 3

(***************************************************************************)
(* Properties of two processing orders of one collection.                  *)
(***************************************************************************)
\* both runs have processed every message of the collection
BothFed == pending_a = <<>> /\ pending_b = <<>> /\ collection.total > 0

StatsA == FSGet(fed_a, CapKey)
StatsB == FSGet(fed_b, CapKey)

\* the same keys with the same counts, whatever the insertion order
SameCounts(values1, values2) ==
  /\ ODKeys(values1) = ODKeys(values2)
  /\ \A k \in ODKeys(values1) : ODGet(values1, k, 0) = ODGet(values2, k, 0)

\* C21: the result of the aggregation depends on the processing order, because of
\* the cap-overflow rule: two orders of one collection can leave the field
\* overflowed in one run and not in the other, the field is then in the output
\* tree of one run and dropped from the other; this happens only when the
\* collection holds exactly MAX_UNIQUE distinct values and more messages than
\* that, and two runs that did not overflow agree on the counts and the presence
C21_OrderSensitivity ==
  BothFed =>
    /\ (StatsA.frozen # StatsB.frozen) =>
          /\ collection.distinct = MAX_UNIQUE
          /\ collection.total > MAX_UNIQUE
    /\ (CapKey \in DOMAIN OutputSpec(fed_a)) # (CapKey \in DOMAIN OutputSpec(fed_b))
          <=> (StatsA.frozen # StatsB.frozen)
    /\ (~StatsA.frozen /\ ~StatsB.frozen) =>
          /\ SameCounts(StatsA.values, StatsB.values)
          /\ StatsA.presence_count = StatsB.presence_count

\* two orders of one collection, the field overflowed in run A only
C21_Witness ==
  /\ BothFed
  /\ StatsA.frozen /\ ~StatsB.frozen
  /\ CapKey \notin DOMAIN OutputSpec(fed_a)
  /\ CapKey \in DOMAIN OutputSpec(fed_b)
  /\ Len(StatsB.values) = MAX_UNIQUE

(***************************************************************************)
(* Properties of the parallel decoding.                                    *)
(***************************************************************************)
\* the task of the file has returned a decoded message
Decoded(f) ==
  f \in DOMAIN tasks /\ tasks[f].state = "returned" /\ tasks[f].result.parsed_msg # None

\* the number of entries of the list "messages" that are the message of file f
MessagesOf(f) == Cardinality({i \in 1..Len(collected) : collected[i] = [file |-> f]})

\* C22: whatever the completion order, the list of messages holds exactly one
\* message for each file whose task has been handled and decoded, and nothing for
\* a file that failed; the loop handles every task, whatever the others met, before
\* the function returns, and the aggregation starts only once every task has
\* completed, on the messages of exactly the files that decoded
C22_FailureIsolation ==
  /\ \A i \in 1..Len(collected) :
       collected[i] # None /\ \E f \in consumed : collected[i] = [file |-> f]
  /\ \A f \in DOMAIN tasks :
       MessagesOf(f) = IF f \in consumed /\ Decoded(f) THEN 1 ELSE 0
  /\ dec_pc \in {"returned", "aggregate", "exit"} =>
       /\ Completed = DOMAIN tasks
       /\ consumed = DOMAIN tasks
       /\ Len(collected) = Cardinality({f \in DOMAIN tasks : Decoded(f)})
  /\ dec_pc = "exit" => \A f \in DOMAIN tasks : ~Decoded(f)

\* the aggregation starts on the messages of the third and the first file, in the
\* order of completion, the task of the second file having failed
C22_Witness ==
  /\ dec_pc = "aggregate"
  /\ Len(tasks) = 3
  /\ ~Decoded(2)
  /\ collected = <<[file |-> 3], [file |-> 1]>>
  /\ consumed = {1, 2, 3}

(***************************************************************************)
(* Properties of the report entries.                                       *)
(***************************************************************************)
Built == rep_entry # None

\* the full path equals an entry of the PHI list, or begins with one
PHIListed ==
  \E f \in PHI_FIELDS : StartsWith(FullPath(rep_entry.segment, rep_entry.field_path), f)

\* the cases in which the listing is withheld
Suppressed ==
  \/ PHIListed
  \/ ODHas(rep_values, TOO_MANY)
  \/ Len(rep_values) > 100
  \/ rep_entry.entry.hl7_type \in {"TS", "SI"}

Listing == rep_entry.entry.unique_values.listing

\* C23: the entry of a field carries no listing of unique values when the full
\* path of the field equals or begins with an entry of the PHI list, when the
\* value mapping holds the sentinel or more than 100 keys, or when the datatype
\* is TS or SI; every other entry carries the listing, one item per key with its
\* count, the counts in descending order
C23_UniqueValueSuppression ==
  Built =>
    /\ Suppressed => rep_entry.entry.unique_values = None
    /\ ~Suppressed =>
         /\ rep_entry.entry.unique_values # None
         /\ Len(Listing) = Len(rep_values)
         /\ \A i \in 1..Len(rep_values) :
              \E j \in 1..Len(Listing) :
                Listing[j].value = rep_values[i].k /\ Listing[j].count = rep_values[i].v
         /\ \A j \in 1..Len(Listing) - 1 : Listing[j].count >= Listing[j + 1].count

\* the listing withheld from a component of a PHI field, whose mapping is small
C23_Witness ==
  /\ Built
  /\ rep_entry.segment = "PID" /\ rep_entry.field_path = <<5, 1>>
  /\ Len(rep_values) = 2 /\ ~ODHas(rep_values, TOO_MANY)
  /\ rep_entry.entry.unique_values = None

(***************************************************************************)
(* Pattern coverage.                                                       *)
(***************************************************************************)
\* the segment names of the messages
NamesInMessages ==
  UNION {{messages[m][p] : p \in 1..Len(messages[m])} : m \in 1..Len(messages)}

\* the segment names of the final patterns, annotations removed
NamesInPatterns ==
  UNION {{clean_segment_name(Patterns[q].sequence[p]) : p \in 1..Len(Patterns[q].sequence)} :
           q \in 1..Len(Patterns)}

\* C24: every segment name that occurs in a message of the category occurs,
\* possibly annotated, in at least one final pattern of the category
C24_PatternCoverage == Done => NamesInMessages \subseteq NamesInPatterns

(***************************************************************************)
(* Bounds of the counts of the output.                                     *)
(***************************************************************************)
\* C25: every field of the output tree of a category has a presence count of at
\* least 1 and at most the number of messages of the category, and the sum of
\* its value counts is at least its presence count
C25_OutputCountBounds ==
  AggDone =>
    \A key \in DOMAIN out.spec :
      /\ key \in DOMAIN out.presence
      /\ key[1] \in DOMAIN totals_by_type
      /\ 1 <= out.presence[key]
      /\ out.presence[key] <= totals_by_type[key[1]]
      /\ ODSum(out.spec[key]) >= out.presence[key]

\* a field present in both messages of its category, with more values than
\* messages, next to a category of one message
C25_Witness ==
  /\ AggDone
  /\ DOMAIN totals_by_type = Categories
  /\ \E key \in DOMAIN out.spec :
       /\ totals_by_type[key[1]] = 2
       /\ out.presence[key] = 2
       /\ ODSum(out.spec[key]) = 3

(***************************************************************************)
(* The consolidation as a renaming.                                        *)
(***************************************************************************)
\* where the entry at key is found after the pass: at key, or at its base path
KeyAfter(key) == IF key \in DOMAIN out.spec THEN key ELSE BaseKey(key)

\* the fields of one segment of one category
FieldsOf(table, category, seg_name) ==
  {key \in DOMAIN table : key[1] = category /\ key[2] = seg_name}

\* C26: the consolidation only renames: the value tree and the presence table
\* have the same keys before and after it, every entry is found after the pass
\* with its values and its presence, at its own path or at its base path, no two
\* entries land on the same path, an entry that keeps its path is unchanged, each
\* segment of each category keeps its number of fields, and a second pass changes
\* nothing
C26_ConsolidationOnlyRenames ==
  AggDone =>
    /\ DOMAIN TreeBefore = DOMAIN PresenceBefore
    /\ DOMAIN out.spec = DOMAIN out.presence
    /\ \A key \in DOMAIN TreeBefore :
         /\ KeyAfter(key) \in DOMAIN out.spec
         /\ out.spec[KeyAfter(key)] = TreeBefore[key]
         /\ out.presence[KeyAfter(key)] = PresenceBefore[key]
    /\ \A k1, k2 \in DOMAIN TreeBefore : KeyAfter(k1) = KeyAfter(k2) => k1 = k2
    /\ DOMAIN out.spec = {KeyAfter(key) : key \in DOMAIN TreeBefore}
    /\ \A key \in DOMAIN TreeBefore :
         Cardinality(FieldsOf(out.spec, key[1], key[2]))
           = Cardinality(FieldsOf(TreeBefore, key[1], key[2]))
    /\ consolidate_single_component_fields(out.spec, out.presence) = out

\* one entry renamed to its base path next to an entry of the same segment that
\* keeps its path, and in the other category a first component that is not alone
C26_Witness ==
  /\ AggDone
  /\ \E key \in DOMAIN TreeBefore :
       /\ key \notin DOMAIN out.spec
       /\ \E other \in FieldsOf(TreeBefore, key[1], key[2]) :
            other # key /\ other \in DOMAIN out.spec
  /\ \E key \in DOMAIN TreeBefore :
       EndsWithDot1(key[3]) /\ key \in DOMAIN out.spec

====
